---- MODULE Spec2Model ----
(***************************************************************************)
(* The amail message store (internal/db/db.go): two SQLite tables,         *)
(* messages and recipients, the transactional SendMessage, the per-        *)
(* recipient status mutations and the inbox queries, run by connections    *)
(* that share one database file opened in WAL mode with a busy timeout.    *)
(*                                                                         *)
(* A table is a bag of rows, so that a duplicate row is a state the model  *)
(* can express and the PRIMARY KEY checks are what rules it out.           *)
(***************************************************************************)
EXTENDS Bags, FiniteSets, Integers, Sequences, TLC

\* ------------------------------------------------------------------ bounds
\* time.Now() is read from a clock that runs from 0 to MaxClock
MaxClock == 1
\* the number of store calls made in one run
MaxCalls == 3

\* busy_timeout(5000): the lock wait bound, counted in sleeps of one second
BusyTimeout == 5

\* SQL NULL in a TEXT column, and in a TIMESTAMP column
NULL == "NULL"
NoTime == -1

Roles == {"dev", "qa"}
\* the roles in the order of the index on recipients(message_id, to_id)
ByName == <<"dev", "qa">>
\* the roles that send: a sender may be among the destinations or not
Senders == {"dev"}
MsgIds == {"m1", "m2"}
\* the connections (CLI processes, or pooled connections of one handle)
Procs == {"p1", "p2"}
\* the connection that runs the single-connection specification
SeqProcs == {"p1"}
NoProc == "none"

VARIABLES
    messages,    \* committed rows of table messages (a bag)
    recipients,  \* committed rows of table recipients (a bag)
    lock,        \* the connection holding the database write lock, or NoProc
    tx,          \* per connection: rows written inside its open transaction
    pc,          \* per connection: where it stands in the call it is running
    call,        \* per connection: the call it is running and its arguments
    idx,         \* per connection: SendMessage's position in the recipient list
    waited,      \* per connection: seconds slept so far by the busy handler
    result,      \* per connection: what its last call returned
    inbox,       \* per connection: the rows its last GetInbox returned
    calls,       \* the number of store calls made so far
    now,         \* the clock behind time.Now()
    sigChan,     \* per watcher: the signals buffered in its channel (capacity 1)
    cycle,       \* per watcher: what it did in its poll cycle so far, in order
    dispatched   \* per watcher and message: how often it dispatched it (0, 1, more)

vars == <<messages, recipients, lock, tx, pc, call, idx, waited, result, inbox, calls, now,
          sigChan, cycle, dispatched>>

\* ----------------------------------------------------------------- schema
\* a row of table messages
MessageRow(id, from, thread, reply, created) ==
    [id |-> id, from_id |-> from, thread_id |-> thread, reply_to_id |-> reply,
     created_at |-> created]

\* a row of table recipients as SendMessage inserts it: status 'unread',
\* read_at and notified_at NULL
NewRecipientRow(mid, to) ==
    [message_id |-> mid, to_id |-> to, status |-> "unread",
     read_at |-> NoTime, notified_at |-> NoTime]

\* ------------------------------------------------------------ bag helpers
\* the rows of table B that satisfy P, with their multiplicities
Where(B, P(_)) == [r \in {x \in DOMAIN B : P(x)} |-> B[r]]

\* the number of rows of B that satisfy P
CountWhere(B, P(_)) == BagCardinality(Where(B, P))

\* UPDATE B SET ... WHERE P: every row satisfying P is replaced by F(row)
UpdateWhere(B, P(_), F(_)) ==
    LET G(r) == IF P(r) THEN F(r) ELSE r IN BagOfAll(G, B)

NoRows == EmptyBag
\* a database state: the two tables. Also the rows of an open transaction.
Tables(m, r) == [messages |-> m, recipients |-> r]
NoTx == Tables(NoRows, NoRows)
\* the committed database
DB == Tables(messages, recipients)

NoCall == [op |-> "none"]
\* a returned error: fmt.Errorf("failed to <what> <arg>: %w", cause); nil is NoError
Errorf(what, arg, cause) == [what |-> what, arg |-> arg, cause |-> cause]
NoError == Errorf("nil", NULL, "nil")
\* what a call returned: the call, its error and, for MarkAllRead, its count
Returned(op, err, n) == [op |-> op, err |-> err, n |-> n]
NoResult == Returned("none", NoError, 0)

\* what a connection reads inside its own transaction t: the committed rows
\* plus the rows it has written and not yet committed
View(db, t) == Tables(db.messages (+) t.messages, db.recipients (+) t.recipients)

\* --------------------------------------------------- constraints (schema)
\* mutant: column id declared without PRIMARY KEY
NoMessagePK(rows, m) == FALSE

\* messages.id TEXT PRIMARY KEY
MessagePKViolated(rows, m) == \E r \in DOMAIN rows : r.id = m.id

\* FOREIGN KEY (thread_id) / (reply_to_id) REFERENCES messages(id), enforced
\* because Open sets foreign_keys(1). A NULL key is not checked; a row may
\* reference itself.
ForeignKeyHolds(rows, m, key) ==
    \/ key = NULL
    \/ key = m.id
    \/ \E r \in DOMAIN rows : r.id = key

\* mutant: the connection opened without foreign_keys(1)
ForeignKeysOff(rows, m) == FALSE

MessageFKViolated(rows, m) ==
    \/ ~ForeignKeyHolds(rows, m, m.thread_id)
    \/ ~ForeignKeyHolds(rows, m, m.reply_to_id)

\* mutant: table recipients declared without its PRIMARY KEY
NoRecipientPK(rows, mid, to) == FALSE

\* recipients: PRIMARY KEY (message_id, to_id)
RecipientPKViolated(rows, mid, to) ==
    \E r \in DOMAIN rows : r.message_id = mid /\ r.to_id = to

\* recipients: FOREIGN KEY (message_id) REFERENCES messages(id)
RecipientFKViolated(msgRows, mid) == ~\E r \in DOMAIN msgRows : r.id = mid

\* ------------------------------------------------------------ transactions
\* the outcome of one statement inside a transaction: its error and the
\* transaction's rows after it
Stmt(err, t) == [err |-> err, tx |-> t]
StmtOk(t) == Stmt(NoError, t)

\* tx.Exec(INSERT INTO messages ...)
TxInsertMessage(db, t, m) ==
    LET v == View(db, t) IN
    IF MessagePKViolated(v.messages, m) \/ MessageFKViolated(v.messages, m)
    THEN Stmt(Errorf("insert message", NULL, "constraint"), t)
    ELSE StmtOk(Tables(t.messages (+) SetToBag({m}), t.recipients))

\* tx.Exec(INSERT INTO recipients (message_id, to_id, status) VALUES (?, ?, 'unread'))
TxInsertRecipient(db, t, mid, to) ==
    LET v == View(db, t) IN
    IF RecipientPKViolated(v.recipients, mid, to) \/ RecipientFKViolated(v.messages, mid)
    THEN Stmt(Errorf("insert recipient", to, "constraint"), t)
    ELSE StmtOk(Tables(t.messages, t.recipients (+) SetToBag({NewRecipientRow(mid, to)})))

\* the loop over the recipient list from position i on: it stops at the
\* first insert that fails
RECURSIVE TxInsertRecipients(_, _, _, _, _)
TxInsertRecipients(db, t, mid, rcpts, i) ==
    IF i > Len(rcpts) THEN StmtOk(t)
    ELSE LET s == TxInsertRecipient(db, t, mid, rcpts[i]) IN
         IF s.err # NoError THEN s
         ELSE TxInsertRecipients(db, s.tx, mid, rcpts, i + 1)

\* mutant: the recipient inserts are not part of what Commit makes durable
CommittedMessagesOnly(db, t) == Tables(db.messages (+) t.messages, db.recipients)

\* mutant: Commit writes the transaction's rows over the committed tables
CommittedOverwrites(db, t) == t

\* tx.Commit(): the transaction's rows become committed rows
Committed(db, t) == View(db, t)

\* mutant: no Rollback on the error path, the rows written so far stay
RolledBackKeepsRows(db, t) == View(db, t)

\* the deferred tx.Rollback() after a failed statement: the transaction's
\* rows are discarded and the committed tables stay as they are
RolledBack(db, t) == db

\* SendMessage from Begin to return, run with no other connection in between:
\* the error it returns and the committed tables it leaves
SendOutcome(db, msg, rcpts) ==
    LET s1 == TxInsertMessage(db, NoTx, msg) IN
    IF s1.err # NoError THEN [err |-> s1.err, db |-> RolledBack(db, s1.tx)]
    ELSE LET s2 == TxInsertRecipients(db, s1.tx, msg.id, rcpts, 1) IN
         IF s2.err # NoError THEN [err |-> s2.err, db |-> RolledBack(db, s2.tx)]
         ELSE [err |-> NoError, db |-> Committed(db, s2.tx)]

\* the write lock is free for connection p
LockFree(p) == lock = NoProc \/ lock = p

\* ------------------------------------------------------------------ inputs
\* the recipient lists of SendMessage: ordered, duplicates allowed
RecipientLists == UNION {[1..n -> Roles] : n \in 0..Cardinality(Roles)}

\* the (thread_id, reply_to_id) pairs of the messages sent: a message that
\* starts a thread has neither, a reply has both
Refs == {<<NULL, NULL>>} \cup (MsgIds \X MsgIds)

\* the messages a caller builds now: CreatedAt is time.Now()
MessageInputs ==
    {MessageRow(id, from, ref[1], ref[2], now) :
        id \in MsgIds, from \in Senders, ref \in Refs}

Init ==
    /\ messages = NoRows
    /\ recipients = NoRows
    /\ lock = NoProc
    /\ tx = [p \in Procs |-> NoTx]
    /\ pc = [p \in Procs |-> "idle"]
    /\ call = [p \in Procs |-> NoCall]
    /\ idx = [p \in Procs |-> 0]
    /\ waited = [p \in Procs |-> 0]
    /\ result = [p \in Procs |-> NoResult]
    /\ inbox = [p \in Procs |-> <<>>]
    /\ calls = 0
    /\ now = 0
    /\ sigChan = [p \in Procs |-> 0]
    /\ cycle = [p \in Procs |-> <<>>]
    /\ dispatched = [p \in Procs |-> [id \in MsgIds |-> 0]]

\* ------------------------------------------------------------ SendMessage
\* SendMessage(msg, recipients) by a connection that is alone on the file
SendMessage(p, msg, rcpts) ==
    /\ pc[p] = "idle"
    /\ lock = NoProc
    /\ calls < MaxCalls
    /\ calls' = calls + 1
    /\ LET out == SendOutcome(DB, msg, rcpts) IN
       /\ messages' = out.db.messages
       /\ recipients' = out.db.recipients
       /\ result' = [result EXCEPT ![p] = Returned("SendMessage", out.err, 0)]
    /\ UNCHANGED <<lock, tx, pc, call, idx, waited, inbox, now, sigChan, cycle, dispatched>>

\* ------------------------------------------------- single-row mutations
IsPair(r, mid, to) == r.message_id = mid /\ r.to_id = to

\* mutant: the UPDATE flips the status, 'read' goes back to 'unread'
MarkReadToggles(rows, mid, to, t) ==
    LET P(r) == IsPair(r, mid, to)
        F(r) == [r EXCEPT !.status = IF r.status = "read" THEN "unread" ELSE "read",
                          !.read_at = t]
    IN UpdateWhere(rows, P, F)

\* mutant: the UPDATE misses "AND to_id = ?"
MarkReadForEveryRecipient(rows, mid, to, t) ==
    LET P(r) == r.message_id = mid
        F(r) == [r EXCEPT !.status = "read", !.read_at = t]
    IN UpdateWhere(rows, P, F)

\* UPDATE recipients SET status = 'read', read_at = ? WHERE message_id = ? AND to_id = ?
MarkReadRows(rows, mid, to, t) ==
    LET P(r) == IsPair(r, mid, to)
        F(r) == [r EXCEPT !.status = "read", !.read_at = t]
    IN UpdateWhere(rows, P, F)

\* UPDATE recipients SET notified_at = ? WHERE message_id = ? AND to_id = ?
MarkNotifiedRows(rows, mid, to, t) ==
    LET P(r) == IsPair(r, mid, to)
        F(r) == [r EXCEPT !.notified_at = t]
    IN UpdateWhere(rows, P, F)

\* UPDATE recipients SET status = 'read', read_at = ? WHERE to_id = ? AND status = 'unread'
MarkAllReadRows(rows, to, t) ==
    LET P(r) == r.to_id = to /\ r.status = "unread"
        F(r) == [r EXCEPT !.status = "read", !.read_at = t]
    IN UpdateWhere(rows, P, F)

\* mutant: the count is that of all the recipient's rows
AffectedAllRows(rows, to) ==
    LET P(r) == r.to_id = to IN CountWhere(rows, P)

\* result.RowsAffected() of MarkAllRead's UPDATE
MarkAllReadAffected(rows, to) ==
    LET P(r) == r.to_id = to /\ r.status = "unread" IN CountWhere(rows, P)

\* mutant: Archive removes the row
ArchiveDeletes(rows, mid, to) ==
    LET P(r) == ~IsPair(r, mid, to) IN Where(rows, P)

\* mutant: the UPDATE also clears read_at
ArchiveClearsReadAt(rows, mid, to) ==
    LET P(r) == IsPair(r, mid, to)
        F(r) == [r EXCEPT !.status = "archived", !.read_at = NoTime]
    IN UpdateWhere(rows, P, F)

\* mutant: archiving an archived row takes it back to the inbox
ArchiveUnarchives(rows, mid, to) ==
    LET P(r) == IsPair(r, mid, to)
        F(r) == [r EXCEPT !.status = IF r.status = "archived" THEN "unread" ELSE "archived"]
    IN UpdateWhere(rows, P, F)

\* UPDATE recipients SET status = 'archived' WHERE message_id = ? AND to_id = ?
ArchiveRows(rows, mid, to) ==
    LET P(r) == IsPair(r, mid, to)
        F(r) == [r EXCEPT !.status = "archived"]
    IN UpdateWhere(rows, P, F)

\* mutant: the DELETE misses "AND to_id = ?"
DeleteForEveryRecipient(rows, mid, to) ==
    LET P(r) == r.message_id # mid IN Where(rows, P)

\* DELETE FROM recipients WHERE message_id = ? AND to_id = ?
DeleteRows(rows, mid, to) ==
    LET P(r) == ~IsPair(r, mid, to) IN Where(rows, P)

\* the recipients table after the statement of call c
StatementRows(rows, c) ==
    CASE c.op = "MarkRead" -> MarkReadRows(rows, c.message_id, c.to_id, c.at)
      [] c.op = "MarkNotified" -> MarkNotifiedRows(rows, c.message_id, c.to_id, c.at)
      [] c.op = "MarkAllRead" -> MarkAllReadRows(rows, c.to_id, c.at)
      [] c.op = "Archive" -> ArchiveRows(rows, c.message_id, c.to_id)
      [] c.op = "Delete" -> DeleteRows(rows, c.message_id, c.to_id)

\* mutant: the DELETE takes the message row along
DeleteRemovesMessage(msgs, c) ==
    LET P(m) == m.id # c.message_id
    IN IF c.op = "Delete" THEN Where(msgs, P) ELSE msgs

\* the messages table after the statement of call c: the UPDATEs and the
\* DELETE name the recipients table only
StatementMessages(msgs, c) == msgs

\* mutant: a statement that matched no row is reported as an error
FailsWhenNoRowMatches(rows, c) ==
    LET Hit(r) == IsPair(r, c.message_id, c.to_id)
    IN IF c.op # "MarkAllRead" /\ CountWhere(rows, Hit) = 0
       THEN Returned(c.op, Errorf(c.op, c.message_id, "no rows affected"), 0)
       ELSE Returned(c.op, NoError,
                     IF c.op = "MarkAllRead" THEN MarkAllReadAffected(rows, c.to_id) ELSE 0)

\* what the call returns when its statement ran
StatementResult(rows, c) ==
    Returned(c.op, NoError,
             IF c.op = "MarkAllRead" THEN MarkAllReadAffected(rows, c.to_id) ELSE 0)

\* db.conn.Exec of one statement outside a transaction: it runs at once when
\* the write lock is free, and otherwise the connection enters the busy wait
Exec(p, c) ==
    /\ pc[p] = "idle"
    /\ calls < MaxCalls
    /\ calls' = calls + 1
    /\ IF LockFree(p)
       THEN /\ recipients' = StatementRows(recipients, c)
            /\ messages' = StatementMessages(messages, c)
            /\ result' = [result EXCEPT ![p] = StatementResult(recipients, c)]
            /\ UNCHANGED <<pc, call, waited>>
       ELSE /\ pc' = [pc EXCEPT ![p] = "busy"]
            /\ call' = [call EXCEPT ![p] = c]
            /\ waited' = [waited EXCEPT ![p] = 0]
            /\ result' = [result EXCEPT ![p] = NoResult]
            /\ UNCHANGED <<messages, recipients>>
    /\ UNCHANGED <<lock, tx, idx, inbox, now, sigChan, cycle, dispatched>>

MarkRead(p, mid, to) ==
    Exec(p, [op |-> "MarkRead", message_id |-> mid, to_id |-> to, at |-> now])

MarkNotified(p, mid, to) ==
    Exec(p, [op |-> "MarkNotified", message_id |-> mid, to_id |-> to, at |-> now])

MarkAllRead(p, to) ==
    Exec(p, [op |-> "MarkAllRead", message_id |-> NULL, to_id |-> to, at |-> now])

Archive(p, mid, to) ==
    Exec(p, [op |-> "Archive", message_id |-> mid, to_id |-> to, at |-> NoTime])

Delete(p, mid, to) ==
    Exec(p, [op |-> "Delete", message_id |-> mid, to_id |-> to, at |-> NoTime])

\* a call whose statements write no row
NoRowCall(p, op) ==
    /\ pc[p] = "idle"
    /\ lock = NoProc
    /\ calls < MaxCalls
    /\ calls' = calls + 1
    /\ result' = [result EXCEPT ![p] = Returned(op, NoError, 0)]
    /\ UNCHANGED <<messages, recipients, lock, tx, pc, call, idx, waited, inbox, now,
                   sigChan, cycle, dispatched>>

\* mutant: the schema creates its tables anew
RecreatesTables(db) == Tables(NoRows, NoRows)

\* the tables after db.conn.Exec(schema): every CREATE is IF NOT EXISTS, so
\* tables that exist stay as they are, rows included
AfterSchema(db) == db

\* Init(): the schema again, on a database that has its tables
InitSchema(p) ==
    /\ pc[p] = "idle"
    /\ lock = NoProc
    /\ calls < MaxCalls
    /\ calls' = calls + 1
    /\ LET db == AfterSchema(DB) IN
       /\ messages' = db.messages
       /\ recipients' = db.recipients
    /\ result' = [result EXCEPT ![p] = Returned("Init", NoError, 0)]
    /\ UNCHANGED <<lock, tx, pc, call, idx, waited, inbox, now, sigChan, cycle, dispatched>>

\* Close(): PRAGMA wal_checkpoint(PASSIVE) and conn.Close(); the rows stay
\* what they are, and the connection's next call is on a handle opened anew
Close(p) == NoRowCall(p, "Close")

\* time passes
Tick ==
    /\ now < MaxClock
    /\ now' = now + 1
    /\ UNCHANGED <<messages, recipients, lock, tx, pc, call, idx, waited, result, inbox, calls, sigChan, cycle, dispatched>>

\* ---------------------------------------------------------------- queries
\* mutant: the count takes every row that is not 'read'
CountNotRead(db, toID) ==
    LET P(r) == r.to_id = toID /\ r.status # "read" IN CountWhere(db.recipients, P)

\* SELECT COUNT(*) FROM recipients WHERE to_id = ? AND status = 'unread'
CountUnread(db, toID) ==
    LET P(r) == r.to_id = toID /\ r.status = "unread" IN CountWhere(db.recipients, P)

\* the to_id of the rows of message id, from position i of ByName on
RECURSIVE RecipientsFrom(_, _, _)
RecipientsFrom(rows, id, i) ==
    IF i > Len(ByName) THEN <<>>
    ELSE LET P(r) == r.message_id = id /\ r.to_id = ByName[i]
         IN [j \in 1..CountWhere(rows, P) |-> ByName[i]] \o RecipientsFrom(rows, id, i + 1)

\* mutant: no destinations are attached
NoRecipientsAttached(db, id) == <<>>

\* SELECT to_id FROM recipients WHERE message_id = ?, appended row by row:
\* the query is answered from the primary key's index, by to_id
MessageRecipients(db, id) == RecipientsFrom(db.recipients, id, 1)

\* a result row of the inbox query: the message's columns with r.status and
\* r.read_at, its ToIDs still to be attached
InboxRow(m, r) ==
    [id |-> m.id, from_id |-> m.from_id, thread_id |-> m.thread_id,
     reply_to_id |-> m.reply_to_id, created_at |-> m.created_at,
     status |-> r.status, read_at |-> r.read_at, ToIDs |-> <<>>]

\* FROM messages m JOIN recipients r ON m.id = r.message_id WHERE r.to_id = ?
\* [AND r.status = 'unread']
InboxJoin(db, toID, includeRead) ==
    LET pairs == {mr \in (DOMAIN db.messages) \X (DOMAIN db.recipients) :
                    /\ mr[1].id = mr[2].message_id
                    /\ mr[2].to_id = toID
                    /\ includeRead \/ mr[2].status = "unread"}
        product == [mr \in pairs |-> db.messages[mr[1]] * db.recipients[mr[2]]]
        Row(mr) == InboxRow(mr[1], mr[2])
    IN BagOfAll(Row, product)

\* the sequences that list the rows of bag B, each as often as B holds it
Orderings(B) ==
    LET n == BagCardinality(B) IN
    {s \in [1..n -> DOMAIN B] :
        \A e \in DOMAIN B : Cardinality({i \in 1..n : s[i] = e}) = B[e]}

\* mutant: ORDER BY m.created_at ASC
OldestFirstInbox(s) == \A i, j \in 1..Len(s) : i < j => s[i].created_at <= s[j].created_at

\* ORDER BY m.created_at DESC: rows of equal created_at come in any order
NewestFirst(s) == \A i, j \in 1..Len(s) : i < j => s[i].created_at >= s[j].created_at

\* mutant: only the first row gets its destinations
AttachesFirstRowOnly(db, s) ==
    [i \in 1..Len(s) |->
        IF i = 1 THEN [s[i] EXCEPT !.ToIDs = MessageRecipients(db, s[i].id)] ELSE s[i]]

\* attachRecipients: every result row gets the destinations of its message
AttachRecipients(db, s) ==
    [i \in 1..Len(s) |-> [s[i] EXCEPT !.ToIDs = MessageRecipients(db, s[i].id)]]

\* the results GetInbox(toID, includeRead) can return on database state db
GetInboxResults(db, toID, includeRead) ==
    {AttachRecipients(db, s) :
        s \in {o \in Orderings(InboxJoin(db, toID, includeRead)) : NewestFirst(o)}}

\* the ids GetInbox(toID, includeRead) lists
GetInboxIds(db, toID, includeRead) ==
    {r.id : r \in DOMAIN InboxJoin(db, toID, includeRead)}

\* a result row of the thread query: the message's columns, no status
ThreadRow(m) ==
    [id |-> m.id, from_id |-> m.from_id, thread_id |-> m.thread_id,
     reply_to_id |-> m.reply_to_id, created_at |-> m.created_at,
     status |-> "", read_at |-> NoTime, ToIDs |-> <<>>]

\* FROM messages m WHERE m.id = ? OR m.thread_id = ?
ThreadRows(db, threadID) ==
    LET P(m) == m.id = threadID \/ m.thread_id = threadID
    IN BagOfAll(ThreadRow, Where(db.messages, P))

\* mutant: ORDER BY m.created_at DESC
NewestFirstThread(s) == \A i, j \in 1..Len(s) : i < j => s[i].created_at >= s[j].created_at

\* ORDER BY m.created_at ASC: rows of equal created_at come in any order
OldestFirst(s) == \A i, j \in 1..Len(s) : i < j => s[i].created_at <= s[j].created_at

\* the results GetThread(threadID) can return on database state db
GetThreadResults(db, threadID) ==
    {AttachRecipients(db, s) :
        s \in {o \in Orderings(ThreadRows(db, threadID)) : OldestFirst(o)}}

\* a nil *InboxMessage
Absent == [found |-> FALSE]
\* sql.ErrNoRows, the error of Scan when QueryRow selected no row
ErrNoRows == Errorf("sql: no rows in result set", NULL, "nil")
\* what a lookup returns: the message (or nil) and the error
Looked(msg, err) == [msg |-> msg, err |-> err]

\* QueryRow(...).Scan over the selected rows: the first row the engine finds,
\* whichever it is, or ErrNoRows when there is none
Scans(rows) ==
    IF rows = {} THEN {[row |-> Absent, err |-> ErrNoRows]}
    ELSE {[row |-> r, err |-> NoError] : r \in rows}

\* mutant: no row is reported as the failure of the query
NoRowsIsAFailure(db, what, scan) ==
    IF scan.err # NoError THEN Looked(Absent, Errorf(what, NULL, scan.err.what))
    ELSE Looked([found |-> TRUE] @@
                [scan.row EXCEPT !.ToIDs = MessageRecipients(db, scan.row.id)], NoError)

\* the end of a lookup: ErrNoRows is nil, nil; another error is wrapped;
\* a row is returned with its destinations attached
AfterScan(db, what, scan) ==
    IF scan.err = ErrNoRows THEN Looked(Absent, NoError)
    ELSE IF scan.err # NoError THEN Looked(Absent, Errorf(what, NULL, scan.err.what))
    ELSE Looked([found |-> TRUE] @@
                [scan.row EXCEPT !.ToIDs = MessageRecipients(db, scan.row.id)], NoError)

\* a result row of a query on messages alone
MessageResult(m) ==
    [id |-> m.id, from_id |-> m.from_id, thread_id |-> m.thread_id,
     reply_to_id |-> m.reply_to_id, created_at |-> m.created_at, ToIDs |-> <<>>]

\* GetMessage(id): FROM messages WHERE id = ?
GetMessageReturns(db, id) ==
    {AfterScan(db, "get message", scan) :
        scan \in Scans({MessageResult(m) : m \in {x \in DOMAIN db.messages : x.id = id}})}
\* the message GetMessage(id) returns, Absent when no row has the id
GetMessage(db, id) == (CHOOSE r \in GetMessageReturns(db, id) : TRUE).msg

\* the id prefixes a caller looks up
Prefixes == {"m", "m1", "m2"}
\* id LIKE prefix || '%'
HasPrefix(id, prefix) == prefix = "m" \/ prefix = id

\* FindMessageByPrefix(prefix): FROM messages WHERE id LIKE ? || '%' LIMIT 1
FindMessageByPrefixReturns(db, prefix) ==
    {AfterScan(db, "find message", scan) :
        scan \in Scans({MessageResult(m) :
                          m \in {x \in DOMAIN db.messages : HasPrefix(x.id, prefix)}})}

\* GetMessageForRecipient(id, toID): FROM messages m JOIN recipients r
\* ON m.id = r.message_id WHERE m.id = ? AND r.to_id = ?
GetMessageForRecipientReturns(db, id, toID) ==
    {AfterScan(db, "get message", scan) :
        scan \in Scans({r \in DOMAIN InboxJoin(db, toID, TRUE) : r.id = id})}

\* GetLatestUnread(toID): the first row of GetInbox(toID, false), nil, nil
\* when it has none
GetLatestUnreadReturns(db, toID) ==
    {IF Len(rows) = 0 THEN Looked(Absent, NoError)
     ELSE Looked([found |-> TRUE] @@ rows[1], NoError) :
        rows \in GetInboxResults(db, toID, FALSE)}

\* ------------------------------------- SendMessage, statement by statement
\* the message a connection sends when several send at once: each its own id
IdOf == [p \in Procs |-> IF p = "p1" THEN "m1" ELSE "m2"]
ConcMessages(p) ==
    {MessageRow(IdOf[p], from, NULL, NULL, now) : from \in Senders}

\* the arguments of a running SendMessage and the error it is about to return
SendCall(msg, rcpts) ==
    [op |-> "SendMessage", msg |-> msg, recipients |-> rcpts, err |-> NoError]

\* db.conn.Begin(): a deferred transaction, it takes no lock yet
SendBegin(p, msg, rcpts) ==
    /\ pc[p] = "idle"
    /\ calls < MaxCalls
    /\ calls' = calls + 1
    /\ pc' = [pc EXCEPT ![p] = "insert_msg"]
    /\ call' = [call EXCEPT ![p] = SendCall(msg, rcpts)]
    /\ tx' = [tx EXCEPT ![p] = NoTx]
    /\ idx' = [idx EXCEPT ![p] = 0]
    /\ waited' = [waited EXCEPT ![p] = 0]
    /\ result' = [result EXCEPT ![p] = NoResult]
    /\ UNCHANGED <<messages, recipients, lock, inbox, now, sigChan, cycle, dispatched>>

\* where SendMessage goes after a statement that passed, i rows of the
\* recipient list being inserted
AfterInsert(c, i) == IF i >= Len(c.recipients) THEN "commit" ELSE "insert_rcpt"

\* tx.Exec(INSERT INTO messages ...): the transaction's first write takes the
\* write lock; a constraint failure sends the call to its return
SendInsertMessage(p) ==
    /\ pc[p] = "insert_msg"
    /\ lock = NoProc
    /\ lock' = p
    /\ LET s == TxInsertMessage(DB, tx[p], call[p].msg) IN
       IF s.err # NoError
       THEN /\ call' = [call EXCEPT ![p].err = s.err]
            /\ pc' = [pc EXCEPT ![p] = "rollback"]
            /\ UNCHANGED <<tx, idx>>
       ELSE /\ tx' = [tx EXCEPT ![p] = s.tx]
            /\ pc' = [pc EXCEPT ![p] = AfterInsert(call[p], 0)]
            /\ idx' = [idx EXCEPT ![p] = 1]
            /\ UNCHANGED call
    /\ UNCHANGED <<messages, recipients, waited, result, inbox, calls, now, sigChan, cycle, dispatched>>

\* one round of the loop: tx.Exec(INSERT INTO recipients ...) for recipients[idx]
SendInsertRecipient(p) ==
    /\ pc[p] = "insert_rcpt"
    /\ LET c == call[p]
           s == TxInsertRecipient(DB, tx[p], c.msg.id, c.recipients[idx[p]])
       IN IF s.err # NoError
          THEN /\ call' = [call EXCEPT ![p].err = s.err]
               /\ pc' = [pc EXCEPT ![p] = "rollback"]
               /\ UNCHANGED <<tx, idx>>
          ELSE /\ tx' = [tx EXCEPT ![p] = s.tx]
               /\ pc' = [pc EXCEPT ![p] = AfterInsert(c, idx[p])]
               /\ idx' = [idx EXCEPT ![p] = idx[p] + 1]
               /\ UNCHANGED call
    /\ UNCHANGED <<messages, recipients, lock, waited, result, inbox, calls, now, sigChan, cycle, dispatched>>

\* tx.Commit(), and the return of nil
SendCommit(p) ==
    /\ pc[p] = "commit"
    /\ LET db == Committed(DB, tx[p]) IN
       /\ messages' = db.messages
       /\ recipients' = db.recipients
    /\ lock' = NoProc
    /\ tx' = [tx EXCEPT ![p] = NoTx]
    /\ pc' = [pc EXCEPT ![p] = "idle"]
    /\ call' = [call EXCEPT ![p] = NoCall]
    /\ result' = [result EXCEPT ![p] = Returned("SendMessage", NoError, 0)]
    /\ UNCHANGED <<idx, waited, inbox, calls, now, sigChan, cycle, dispatched>>

\* the return of an error: the deferred tx.Rollback() runs
SendRollback(p) ==
    /\ pc[p] = "rollback"
    /\ LET db == RolledBack(DB, tx[p]) IN
       /\ messages' = db.messages
       /\ recipients' = db.recipients
    /\ lock' = IF lock = p THEN NoProc ELSE lock
    /\ tx' = [tx EXCEPT ![p] = NoTx]
    /\ pc' = [pc EXCEPT ![p] = "idle"]
    /\ result' = [result EXCEPT ![p] = Returned("SendMessage", call[p].err, 0)]
    /\ call' = [call EXCEPT ![p] = NoCall]
    /\ UNCHANGED <<idx, waited, inbox, calls, now, sigChan, cycle, dispatched>>

\* ------------------------------------------------------------ the busy wait
\* connection p is in a write statement that needs the lock another holds
Blocked(p) == pc[p] \in {"insert_msg", "busy"} /\ ~LockFree(p)

\* mutant: no busy_timeout, a statement that finds the lock held fails at once
FailsAtOnce(w) == TRUE

\* busy_timeout(5000): the busy handler stops retrying once the sleeps so
\* far add up to the timeout
WaitOver(w) == w >= BusyTimeout

\* the busy handler sleeps and the statement is tried again
BusySleep(p) ==
    /\ Blocked(p)
    /\ ~WaitOver(waited[p])
    /\ waited' = [waited EXCEPT ![p] = waited[p] + 1]
    /\ UNCHANGED <<messages, recipients, lock, tx, pc, call, idx, result, inbox, calls, now, sigChan, cycle, dispatched>>

\* mutant: the store starts the failed statement over
RetriesTheCall == "insert_msg"

\* where SendMessage goes when its INSERT returned SQLITE_BUSY: to its return
AfterBusy == "rollback"

\* the busy handler gives up: the statement fails with SQLITE_BUSY
BusyFail(p) ==
    /\ Blocked(p)
    /\ WaitOver(waited[p])
    /\ IF pc[p] = "insert_msg"
       THEN /\ call' = [call EXCEPT ![p].err = Errorf("insert message", NULL, "busy")]
            /\ pc' = [pc EXCEPT ![p] = AfterBusy]
            /\ UNCHANGED result
       ELSE /\ result' = [result EXCEPT ![p] = Returned(call[p].op, Errorf(call[p].op, NULL, "busy"), 0)]
            /\ pc' = [pc EXCEPT ![p] = "idle"]
            /\ call' = [call EXCEPT ![p] = NoCall]
    /\ UNCHANGED <<messages, recipients, lock, tx, idx, waited, inbox, calls, now, sigChan, cycle, dispatched>>

\* the lock has become free for a statement that waited outside a transaction
ExecBlocked(p) ==
    /\ pc[p] = "busy"
    /\ LockFree(p)
    /\ recipients' = StatementRows(recipients, call[p])
    /\ messages' = StatementMessages(messages, call[p])
    /\ result' = [result EXCEPT ![p] = StatementResult(recipients, call[p])]
    /\ pc' = [pc EXCEPT ![p] = "idle"]
    /\ call' = [call EXCEPT ![p] = NoCall]
    /\ UNCHANGED <<lock, tx, idx, waited, inbox, calls, now, sigChan, cycle, dispatched>>

\* ------------------------------------------------- GetInbox, query by query
\* mutant: a query reads the rows the writer has not committed yet
ReadUncommitted(db, t) == View(db, t)

\* mutant: a query reads a snapshot taken before the present instant
ReadsOlderRowsOnly(db, t) ==
    LET Older(m) == m.created_at < now
        Kept(r) == \E m \in DOMAIN db.messages : m.id = r.message_id /\ Older(m)
    IN Tables(Where(db.messages, Older), Where(db.recipients, Kept))

\* journal_mode(WAL): a query outside a transaction reads the committed
\* tables, whatever transaction t the writer has open, and takes no lock
ReadView(db, t) == db

\* the open transaction of the connection holding the write lock
WriterTx == IF lock = NoProc THEN NoTx ELSE tx[lock]

\* db.conn.Query of the inbox join and the scan of its rows
GetInboxQuery(p, toID, includeRead) ==
    /\ pc[p] = "idle"
    /\ calls < MaxCalls
    /\ calls' = calls + 1
    /\ \E s \in Orderings(InboxJoin(ReadView(DB, WriterTx), toID, includeRead)) :
        /\ NewestFirst(s)
        /\ inbox' = [inbox EXCEPT ![p] = s]
    /\ pc' = [pc EXCEPT ![p] = "attach"]
    /\ call' = [call EXCEPT ![p] = [op |-> "GetInbox", to_id |-> toID]]
    /\ waited' = [waited EXCEPT ![p] = 0]
    /\ result' = [result EXCEPT ![p] = NoResult]
    /\ UNCHANGED <<messages, recipients, lock, tx, idx, now, sigChan, cycle, dispatched>>

\* attachRecipients: a second query, for the destinations of the rows found
GetInboxAttach(p) ==
    /\ pc[p] = "attach"
    /\ inbox' = [inbox EXCEPT ![p] = AttachRecipients(ReadView(DB, WriterTx), inbox[p])]
    /\ result' = [result EXCEPT ![p] = Returned("GetInbox", NoError, Len(inbox[p]))]
    /\ pc' = [pc EXCEPT ![p] = "idle"]
    /\ call' = [call EXCEPT ![p] = NoCall]
    /\ UNCHANGED <<messages, recipients, lock, tx, idx, waited, calls, now, sigChan, cycle, dispatched>>

\* ----------------------------------- connections sharing the database file
\* a step that carries on the call connection p is in
Continue(p) ==
    \/ SendInsertMessage(p)
    \/ SendInsertRecipient(p)
    \/ SendCommit(p)
    \/ SendRollback(p)
    \/ BusySleep(p)
    \/ BusyFail(p)
    \/ ExecBlocked(p)
    \/ GetInboxAttach(p)

ConcNext ==
    \E p \in Procs :
        \/ \E msg \in ConcMessages(p), rcpts \in RecipientLists : SendBegin(p, msg, rcpts)
        \/ \E to \in Roles, includeRead \in BOOLEAN : GetInboxQuery(p, to, includeRead)
        \/ \E mid \in MsgIds, to \in Roles : MarkRead(p, mid, to) \/ Delete(p, mid, to)
        \/ Continue(p)

\* a connection that is in a call goes on with it
ConcSpec == Init /\ [][ConcNext]_vars /\ \A p \in Procs : WF_vars(Continue(p))

\* -------------------------------------------- one connection, every call
Next ==
    \/ \E p \in SeqProcs :
        \/ \E msg \in MessageInputs, rcpts \in RecipientLists : SendMessage(p, msg, rcpts)
        \/ \E mid \in MsgIds, to \in Roles :
            \/ MarkRead(p, mid, to)
            \/ MarkNotified(p, mid, to)
            \/ Archive(p, mid, to)
            \/ Delete(p, mid, to)
        \/ \E to \in Roles : MarkAllRead(p, to)
        \/ InitSchema(p)
        \/ Close(p)
    \/ Tick

Spec == Init /\ [][Next]_vars

\* ----------------------------------------------------------- the commands
\* the commands run in one behaviour
MaxCommands == 4
\* the ids generateID draws from: 8 random bytes, so an id may come twice
CliIds == {"m1", "m2", "m3"}
\* the message arguments of a command: a full id or a shorter prefix
CliArgs == {"m"} \cup CliIds
\* what resolveRecipients returns: roles of the configuration, none twice
ResolvedLists ==
    {l \in RecipientLists : \A i, j \in 1..Len(l) : l[i] = l[j] => i = j}

\* filterOut(slice, value)
filterOut(slice, value) == LET Keep(x) == x # value IN SelectSeq(slice, Keep)

\* mutant: dedupe returns the slice as it is
KeepsDuplicates(slice) == slice

\* dedupe(slice): the first occurrence of every value, in order
RECURSIVE dedupe(_)
dedupe(slice) ==
    IF slice = <<>> THEN <<>>
    ELSE LET front == dedupe(SubSeq(slice, 1, Len(slice) - 1))
             last == slice[Len(slice)]
         IN IF \E i \in 1..Len(front) : front[i] = last THEN front
            ELSE Append(front, last)

\* fmt.Errorf("ambiguous ID prefix: %s matches %d messages", prefix, n)
Ambiguous(prefix, n) ==
    [what |-> "ambiguous ID prefix", arg |-> prefix, cause |-> "nil", matches |-> n]

\* mutant: of several matches one is returned
PicksAMatch(db, prefix, toID) ==
    LET rows == InboxJoin(db, toID, TRUE)
        Match(r) == HasPrefix(r.id, prefix)
        matches == Where(rows, Match)
    IN IF BagCardinality(matches) = 0 THEN Looked(Absent, NoError)
       ELSE LET m == CHOOSE r \in DOMAIN matches : TRUE IN
            Looked([found |-> TRUE] @@
                   [m EXCEPT !.ToIDs = MessageRecipients(db, m.id)], NoError)

\* findMessageByPrefix(database, prefix, toID): the one message of toID's
\* inbox whose id starts with prefix; none is nil, nil, several is an error
findMessageByPrefix(db, prefix, toID) ==
    LET rows == InboxJoin(db, toID, TRUE)
        Match(r) == HasPrefix(r.id, prefix)
        matches == Where(rows, Match)
    IN IF BagCardinality(matches) = 0 THEN Looked(Absent, NoError)
       ELSE IF BagCardinality(matches) > 1
            THEN Looked(Absent, Ambiguous(prefix, BagCardinality(matches)))
            ELSE LET m == CHOOSE r \in DOMAIN matches : TRUE IN
                 Looked([found |-> TRUE] @@
                        [m EXCEPT !.ToIDs = MessageRecipients(db, m.id)], NoError)

\* findMessageGlobally(database, prefix): GetMessage(prefix), an exact id
findMessageGlobally(db, prefix) ==
    LET r == CHOOSE r \in GetMessageReturns(db, prefix) : TRUE IN
    IF r.err # NoError THEN r
    ELSE IF r.msg.found /\ HasPrefix(r.msg.id, prefix) THEN r
    ELSE Looked(Absent, NoError)

\* runReply's search of the original message: the sender's inbox first,
\* then every stored message
OriginalMsg(db, fromID, arg) ==
    LET mine == findMessageByPrefix(db, arg, fromID) IN
    IF mine.err # NoError \/ mine.msg.found THEN mine
    ELSE LET any == findMessageGlobally(db, arg) IN
         IF any.err # NoError \/ any.msg.found THEN any
         ELSE Looked(Absent, Errorf("message not found", arg, "nil"))

\* runReply's recipients: with --all the original sender and destinations
\* without the replier, otherwise the original sender
ReplyRecipients(originalMsg, fromID, all) ==
    LET list == IF all
                THEN dedupe(filterOut(<<originalMsg.from_id>> \o originalMsg.ToIDs, fromID))
                ELSE <<originalMsg.from_id>>
    IN IF ~all /\ originalMsg.from_id = fromID
       THEN [recipients |-> <<>>,
             err |-> Errorf("cannot reply to your own message without --all", NULL, "nil")]
       ELSE IF Len(list) = 0
            THEN [recipients |-> <<>>, err |-> Errorf("no recipients for reply", NULL, "nil")]
            ELSE [recipients |-> list, err |-> NoError]

\* mutant: the thread of a reply is always the message replied to
ThreadIsParent(originalMsg) == originalMsg.id

\* mutant: the thread of a reply is the original's thread, if any
ThreadOfOriginalOnly(originalMsg) == originalMsg.thread_id

\* runReply's thread id: the original's thread when it has one, otherwise
\* the original is the root of a new thread
ReplyThreadID(originalMsg) ==
    IF originalMsg.thread_id # NULL THEN originalMsg.thread_id ELSE originalMsg.id

\* the message runReply builds
ReplyMessage(originalMsg, id, fromID, t) ==
    MessageRow(id, fromID, ReplyThreadID(originalMsg), originalMsg.id, t)

\* a command's error around the store's error
Wrapped(what, err) == IF err = NoError THEN NoError ELSE Errorf(what, NULL, err.what)

\* runReply from the search of the original to the return
ReplyOutcome(db, fromID, arg, all, id, t) ==
    LET original == OriginalMsg(db, fromID, arg) IN
    IF original.err # NoError THEN [err |-> original.err, db |-> db]
    ELSE LET to == ReplyRecipients(original.msg, fromID, all) IN
         IF to.err # NoError THEN [err |-> to.err, db |-> db]
         ELSE LET out == SendOutcome(db, ReplyMessage(original.msg, id, fromID, t),
                                     to.recipients)
              IN [err |-> Wrapped("send reply", out.err), db |-> out.db]

\* runSend from the resolved recipients to the return: the message has no
\* thread and is never sent to its sender
SendCmdOutcome(db, fromID, resolved, id, t) ==
    IF Len(resolved) = 0
    THEN [err |-> Errorf("no recipients resolved", NULL, "nil"), db |-> db]
    ELSE IF Len(filterOut(resolved, fromID)) = 0
         THEN [err |-> Errorf("cannot send to self only", NULL, "nil"), db |-> db]
         ELSE LET out == SendOutcome(db, MessageRow(id, fromID, NULL, NULL, t),
                                     filterOut(resolved, fromID))
              IN [err |-> Wrapped("send message", out.err), db |-> out.db]

\* mutant: read marks whatever message it displayed
ReadAlwaysMarks(msg) == TRUE

\* runRead calls MarkRead after the display: if msg.Status == "unread"
ReadMarks(msg) == msg.status = "unread"

\* runRead, runMarkRead, runArchive and runDelete with a message argument:
\* the message is looked up in the caller's inbox and the caller's row of it
\* is updated or deleted; runRead marks a row read only when it is unread
RowCmdOutcome(db, op, toID, arg, t) ==
    LET msg == findMessageByPrefix(db, arg, toID) IN
    IF msg.err # NoError THEN [err |-> msg.err, db |-> db]
    ELSE IF ~msg.msg.found
         THEN [err |-> Errorf("message not found", arg, "nil"), db |-> db]
         ELSE [err |-> NoError,
               db |-> Tables(db.messages,
                        CASE op = "runDelete" ->
                                DeleteRows(db.recipients, msg.msg.id, toID)
                          [] op = "runArchive" ->
                                ArchiveRows(db.recipients, msg.msg.id, toID)
                          [] op = "runRead" /\ ~ReadMarks(msg.msg) ->
                                db.recipients
                          [] OTHER ->
                                MarkReadRows(db.recipients, msg.msg.id, toID, t))]

\* runRead with --latest, for what GetLatestUnread returned: no message is
\* "No unread messages." and nil, a message is displayed and marked read
ReadLatestOutcome(db, latest, toID, t) ==
    IF latest.err # NoError
    THEN [err |-> Wrapped("get latest message", latest.err), db |-> db]
    ELSE IF ~latest.msg.found THEN [err |-> NoError, db |-> db]
         ELSE [err |-> NoError,
               db |-> Tables(db.messages,
                        IF ReadMarks(latest.msg)
                        THEN MarkReadRows(db.recipients, latest.msg.id, toID, t)
                        ELSE db.recipients)]

\* runThread's search of the message: GetMessage of the argument as a full
\* id, then FindMessageByPrefix, which returns the first row the engine
\* finds among those whose id starts with the argument
ThreadTargets(db, arg) ==
    LET exact == CHOOSE r \in GetMessageReturns(db, arg) : TRUE IN
    IF exact.err # NoError THEN {Looked(Absent, Wrapped("get message", exact.err))}
    ELSE IF exact.msg.found THEN {exact}
    ELSE {IF r.err # NoError THEN Looked(Absent, Wrapped("find message", r.err))
          ELSE IF r.msg.found THEN r
          ELSE Looked(Absent, Errorf("message not found", arg, "nil")) :
             r \in FindMessageByPrefixReturns(db, arg)}

\* mutant: the thread shown is always that of the message's own id
ThreadOfItself(msg) == msg.id

\* the thread runThread shows for the message it found
ThreadRootID(msg) == IF msg.thread_id # NULL THEN msg.thread_id ELSE msg.id

\* one run of a command by a process that is alone on the file
Command(p, op, out) ==
    /\ pc[p] = "idle"
    /\ lock = NoProc
    /\ calls < MaxCommands
    /\ calls' = calls + 1
    /\ messages' = out.db.messages
    /\ recipients' = out.db.recipients
    /\ result' = [result EXCEPT ![p] = Returned(op, out.err, 0)]
    /\ UNCHANGED <<lock, tx, pc, call, idx, waited, inbox, now, sigChan, cycle, dispatched>>

runSend(p, fromID, resolved, id) ==
    Command(p, "runSend", SendCmdOutcome(DB, fromID, resolved, id, now))

runReply(p, fromID, arg, all, id) ==
    Command(p, "runReply", ReplyOutcome(DB, fromID, arg, all, id, now))

runMarkRead(p, toID, arg) ==
    Command(p, "runMarkRead", RowCmdOutcome(DB, "runMarkRead", toID, arg, now))

runDelete(p, toID, arg) ==
    Command(p, "runDelete", RowCmdOutcome(DB, "runDelete", toID, arg, now))

runRead(p, toID, arg) ==
    Command(p, "runRead", RowCmdOutcome(DB, "runRead", toID, arg, now))

runReadLatest(p, toID) ==
    \E latest \in GetLatestUnreadReturns(DB, toID) :
        Command(p, "runRead", ReadLatestOutcome(DB, latest, toID, now))

runArchive(p, toID, arg) ==
    Command(p, "runArchive", RowCmdOutcome(DB, "runArchive", toID, arg, now))

\* runThread(arg): the rows of the thread it shows are kept in inbox
runThread(p, arg) ==
    \E target \in ThreadTargets(DB, arg) :
        /\ pc[p] = "idle"
        /\ lock = NoProc
        /\ calls < MaxCommands
        /\ calls' = calls + 1
        /\ result' = [result EXCEPT ![p] = Returned("runThread", target.err, 0)]
        /\ IF target.err # NoError THEN inbox' = [inbox EXCEPT ![p] = <<>>]
           ELSE \E rows \in GetThreadResults(DB, ThreadRootID(target.msg)) :
                   inbox' = [inbox EXCEPT ![p] = rows]
        /\ UNCHANGED <<messages, recipients, lock, tx, pc, call, idx, waited, now, sigChan, cycle, dispatched>>

CliNext ==
    \/ \E p \in SeqProcs :
        \/ \E fromID \in Roles, resolved \in ResolvedLists, id \in CliIds :
            runSend(p, fromID, resolved, id)
        \/ \E fromID \in Roles, arg \in CliArgs, all \in BOOLEAN, id \in CliIds :
            runReply(p, fromID, arg, all, id)
        \/ \E toID \in Roles, arg \in CliArgs :
            \/ runMarkRead(p, toID, arg)
            \/ runDelete(p, toID, arg)
            \/ runRead(p, toID, arg)
            \/ runArchive(p, toID, arg)
        \/ \E toID \in Roles : runReadLatest(p, toID)
        \/ \E arg \in CliArgs : runThread(p, arg)
    \/ Tick

CliSpec == Init /\ [][CliNext]_vars

\* -------------------------------------------------------------- the watcher
\* the process that runs commands and the process that runs `amail watch`
Agent == "p1"
Watcher == "p2"
\* the identity the watcher resolves
WatchRole == "qa"
\* the messages and recipient lists sent while the watcher is or is not there
WatchMessages == {MessageRow(id, from, NULL, NULL, now) : id \in MsgIds, from \in Senders}
WatchLists == {<<"qa">>, <<"dev", "qa">>}
\* how the dispatch ends for a message: GetNotifyCommands gave no command, or
\* notify.ExecuteAll returned no error, or it returned some
DispatchOutcomes == {"no command", "no error", "errors"}

\* mutant: the query leaves out the condition on status
JoinsEveryStatus(db, toID) ==
    LET pairs == {mr \in (DOMAIN db.messages) \X (DOMAIN db.recipients) :
                    /\ mr[1].id = mr[2].message_id
                    /\ mr[2].to_id = toID
                    /\ mr[2].notified_at = NoTime}
        product == [mr \in pairs |-> db.messages[mr[1]] * db.recipients[mr[2]]]
        Row(mr) == InboxRow(mr[1], mr[2])
    IN BagOfAll(Row, product)

\* mutant: the query leaves out the condition on notified_at
JoinsNotifiedRows(db, toID) ==
    LET pairs == {mr \in (DOMAIN db.messages) \X (DOMAIN db.recipients) :
                    /\ mr[1].id = mr[2].message_id
                    /\ mr[2].to_id = toID
                    /\ mr[2].status = "unread"}
        product == [mr \in pairs |-> db.messages[mr[1]] * db.recipients[mr[2]]]
        Row(mr) == InboxRow(mr[1], mr[2])
    IN BagOfAll(Row, product)

\* FROM messages m JOIN recipients r ON m.id = r.message_id
\* WHERE r.to_id = ? AND r.status = 'unread' AND r.notified_at IS NULL
UnnotifiedJoin(db, toID) ==
    LET pairs == {mr \in (DOMAIN db.messages) \X (DOMAIN db.recipients) :
                    /\ mr[1].id = mr[2].message_id
                    /\ mr[2].to_id = toID
                    /\ mr[2].status = "unread"
                    /\ mr[2].notified_at = NoTime}
        product == [mr \in pairs |-> db.messages[mr[1]] * db.recipients[mr[2]]]
        Row(mr) == InboxRow(mr[1], mr[2])
    IN BagOfAll(Row, product)

\* the results GetUnnotified(toID) can return on database state db
GetUnnotifiedResults(db, toID) ==
    {AttachRecipients(db, s) :
        s \in {o \in Orderings(UnnotifiedJoin(db, toID)) : NewestFirst(o)}}

\* an entry of the cycle: a dispatch of message id and how it ended, or the
\* return of MarkNotified for message id and its error
Did(what, id, how) == [do |-> what, id |-> id, how |-> how]

\* the message the watcher's loop is at
Current(w) == inbox[w][idx[w]]

\* where the loop goes after the message at position i of rows
NextMessage(rows, i) == IF i >= Len(rows) THEN "select" ELSE "dispatch"

\* runWatch up to its initial check: the process starts, with its own
\* signal channel and ticker
WatchStart(w) ==
    /\ pc[w] = "idle"
    /\ pc' = [pc EXCEPT ![w] = "check"]
    /\ sigChan' = [sigChan EXCEPT ![w] = 0]
    /\ cycle' = [cycle EXCEPT ![w] = <<>>]
    /\ inbox' = [inbox EXCEPT ![w] = <<>>]
    /\ idx' = [idx EXCEPT ![w] = 0]
    /\ result' = [result EXCEPT ![w] = NoResult]
    /\ UNCHANGED <<messages, recipients, lock, tx, call, waited, calls, now, dispatched>>

\* checkAndNotify's query: the rows GetUnnotified returns are what the loop
\* goes through
WatchGetUnnotified(w) ==
    /\ pc[w] = "check"
    /\ \E rows \in GetUnnotifiedResults(ReadView(DB, WriterTx), WatchRole) :
        /\ inbox' = [inbox EXCEPT ![w] = rows]
        /\ pc' = [pc EXCEPT ![w] = NextMessage(rows, 0)]
    /\ idx' = [idx EXCEPT ![w] = 1]
    /\ cycle' = [cycle EXCEPT ![w] = <<>>]
    /\ UNCHANGED <<messages, recipients, lock, tx, call, waited, result, calls, now,
                   sigChan, dispatched>>

\* mutant: a dispatch that reported errors ends the round for the message
SkipsMarkOnFailure(w, outcome) ==
    IF outcome = "errors"
    THEN NextMessage(inbox[w], idx[w]) ELSE "mark"

\* after the dispatch attempts the loop goes on to MarkNotified
AfterDispatch(w, outcome) == "mark"

\* the notification commands of the current message are run, if any
WatchDispatch(w, outcome) ==
    /\ pc[w] = "dispatch"
    /\ cycle' = [cycle EXCEPT ![w] = Append(cycle[w], Did("dispatch", Current(w).id, outcome))]
    /\ dispatched' = [dispatched EXCEPT ![w][Current(w).id] = IF @ < 2 THEN @ + 1 ELSE @]
    /\ pc' = [pc EXCEPT ![w] = AfterDispatch(w, outcome)]
    /\ waited' = [waited EXCEPT ![w] = 0]
    /\ idx' = IF AfterDispatch(w, outcome) = "mark" THEN idx
              ELSE [idx EXCEPT ![w] = idx[w] + 1]
    /\ UNCHANGED <<messages, recipients, lock, tx, call, result, inbox, calls, now, sigChan>>

\* MarkNotified(msg.ID, toID) runs its UPDATE: the write lock is free
WatchMarkNotified(w) ==
    /\ pc[w] = "mark"
    /\ LockFree(w)
    /\ recipients' = MarkNotifiedRows(recipients, Current(w).id, WatchRole, now)
    /\ cycle' = [cycle EXCEPT ![w] = Append(cycle[w], Did("MarkNotified", Current(w).id, "nil"))]
    /\ pc' = [pc EXCEPT ![w] = NextMessage(inbox[w], idx[w])]
    /\ idx' = [idx EXCEPT ![w] = idx[w] + 1]
    /\ UNCHANGED <<messages, lock, tx, call, waited, result, inbox, calls, now,
                   sigChan, dispatched>>

\* MarkNotified finds the write lock held: the busy handler sleeps
WatchBusySleep(w) ==
    /\ pc[w] = "mark"
    /\ ~LockFree(w)
    /\ ~WaitOver(waited[w])
    /\ waited' = [waited EXCEPT ![w] = waited[w] + 1]
    /\ UNCHANGED <<messages, recipients, lock, tx, pc, call, idx, result, inbox, calls, now,
                   sigChan, cycle, dispatched>>

\* MarkNotified returns SQLITE_BUSY: the error is printed and the loop goes on
WatchBusyFail(w) ==
    /\ pc[w] = "mark"
    /\ ~LockFree(w)
    /\ WaitOver(waited[w])
    /\ cycle' = [cycle EXCEPT ![w] = Append(cycle[w], Did("MarkNotified", Current(w).id, "busy"))]
    /\ pc' = [pc EXCEPT ![w] = NextMessage(inbox[w], idx[w])]
    /\ idx' = [idx EXCEPT ![w] = idx[w] + 1]
    /\ UNCHANGED <<messages, recipients, lock, tx, call, waited, result, inbox, calls, now,
                   sigChan, dispatched>>

\* mutant: the ticker never fires, only the initial check is made
TickerNeverFires(w) == FALSE

\* case <-ticker.C: the next poll cycle
WatchTick(w) ==
    /\ pc[w] = "select"
    /\ pc' = [pc EXCEPT ![w] = "check"]
    /\ cycle' = [cycle EXCEPT ![w] = <<>>]
    /\ inbox' = [inbox EXCEPT ![w] = <<>>]
    /\ idx' = [idx EXCEPT ![w] = 0]
    /\ UNCHANGED <<messages, recipients, lock, tx, call, waited, result, calls,
                   now, sigChan, dispatched>>

\* mutant: the signal ends the process wherever the loop is
StopsAnywhere(w) == pc[w] # "idle"

\* where the signal channel is read: in the select between two cycles
AtSelect(w) == pc[w] = "select"

\* case <-sigChan: runWatch returns nil
WatchStop(w) ==
    /\ AtSelect(w)
    /\ sigChan[w] > 0
    /\ sigChan' = [sigChan EXCEPT ![w] = 0]
    /\ pc' = [pc EXCEPT ![w] = "idle"]
    /\ result' = [result EXCEPT ![w] = Returned("runWatch", NoError, 0)]
    /\ cycle' = [cycle EXCEPT ![w] = <<>>]
    /\ inbox' = [inbox EXCEPT ![w] = <<>>]
    /\ idx' = [idx EXCEPT ![w] = 0]
    /\ UNCHANGED <<messages, recipients, lock, tx, call, waited, calls, now, dispatched>>

\* SIGINT or SIGTERM reaches the watcher process: signal.Notify puts it in
\* the channel, which holds one signal
Interrupt(w) ==
    /\ pc[w] # "idle"
    /\ sigChan[w] = 0
    /\ sigChan' = [sigChan EXCEPT ![w] = 1]
    /\ UNCHANGED <<messages, recipients, lock, tx, pc, call, idx, waited, result, inbox,
                   calls, now, cycle, dispatched>>

\* a step of the watcher's loop other than the return
WatchStep(w) ==
    \/ WatchGetUnnotified(w)
    \/ \E outcome \in DispatchOutcomes : WatchDispatch(w, outcome)
    \/ WatchMarkNotified(w)
    \/ WatchBusySleep(w)
    \/ WatchBusyFail(w)
    \/ WatchTick(w)

\* a step that carries on the agent's SendMessage
AgentStep ==
    \/ SendInsertMessage(Agent)
    \/ SendInsertRecipient(Agent)
    \/ SendCommit(Agent)
    \/ SendRollback(Agent)

WatchNext ==
    \/ \E msg \in WatchMessages, rcpts \in WatchLists : SendBegin(Agent, msg, rcpts)
    \/ AgentStep
    \/ \E mid \in MsgIds :
        \/ MarkRead(Agent, mid, WatchRole)
        \/ Archive(Agent, mid, WatchRole)
        \/ Delete(Agent, mid, WatchRole)
    \/ WatchStart(Watcher)
    \/ WatchStep(Watcher)
    \/ WatchStop(Watcher)
    \/ Interrupt(Watcher)

\* the agent's call and the watcher's loop go on; a select that finds both
\* the ticker and the signal ready takes either, so a signal that stays in
\* the channel is taken in the end
WatchSpec ==
    /\ Init
    /\ [][WatchNext]_vars
    /\ WF_vars(AgentStep)
    /\ WF_vars(WatchStep(Watcher))
    /\ SF_vars(WatchStop(Watcher))

\* two watcher processes started for the same role on the same database: each
\* has its own connection, signal channel and ticker; a process sends before
\* it is started as a watcher or after it returned
TwoWatchers == {Agent, Watcher}

TwoWatchNext ==
    \/ \E p \in TwoWatchers, msg \in WatchMessages, rcpts \in WatchLists :
          SendMessage(p, msg, rcpts)
    \/ \E w \in TwoWatchers :
        \/ WatchStart(w)
        \/ WatchGetUnnotified(w)
        \/ \E outcome \in DispatchOutcomes : WatchDispatch(w, outcome)
        \/ WatchMarkNotified(w)
        \/ WatchTick(w)
        \/ WatchStop(w)
        \/ Interrupt(w)

TwoWatchSpec == Init /\ [][TwoWatchNext]_vars

\* ------------------------------------------------------------------ the TUI
\* the process that runs the terminal interface
TuiProc == "p2"
\* the To field a user fills in for a new message
ComposedLists == {<<role>> : role \in Roles}

\* the Model: the identity, the message opened last, the key that opened the
\* compose view and the recipients in its To field
Model(identity, currentMessage, key, to) ==
    [op |-> "tui", identity |-> identity, currentMessage |-> currentMessage,
     key |-> key, to |-> to]

\* NewModel and Init: the inbox view, filled by refreshInbox
NewModel(identity) ==
    /\ pc[TuiProc] = "idle"
    /\ pc' = [pc EXCEPT ![TuiProc] = "ViewInbox"]
    /\ call' = [call EXCEPT ![TuiProc] = Model(identity, Absent, "none", <<>>)]
    /\ \E rows \in GetInboxResults(DB, identity, TRUE) :
          inbox' = [inbox EXCEPT ![TuiProc] = rows]
    /\ result' = [result EXCEPT ![TuiProc] = NoResult]
    /\ UNCHANGED <<messages, recipients, lock, tx, idx, waited, calls, now,
                   sigChan, cycle, dispatched>>

\* updateInbox, key enter with the cursor at row i: the message is opened
\* and marked read
updateInboxEnter(i) ==
    /\ pc[TuiProc] = "ViewInbox"
    /\ lock = NoProc
    /\ i \in 1..Len(inbox[TuiProc])
    /\ pc' = [pc EXCEPT ![TuiProc] = "ViewMessage"]
    /\ call' = [call EXCEPT ![TuiProc].currentMessage = inbox[TuiProc][i]]
    /\ recipients' = MarkReadRows(recipients, inbox[TuiProc][i].id, call[TuiProc].identity, now)
    /\ UNCHANGED <<messages, lock, tx, idx, waited, result, inbox, calls, now,
                   sigChan, cycle, dispatched>>

\* updateInbox, key c: an empty compose view, the user fills in To
updateInboxCompose(to) ==
    /\ pc[TuiProc] = "ViewInbox"
    /\ pc' = [pc EXCEPT ![TuiProc] = "ViewCompose"]
    /\ call' = [call EXCEPT ![TuiProc].key = "c", ![TuiProc].to = to]
    /\ UNCHANGED <<messages, recipients, lock, tx, idx, waited, result, inbox, calls, now,
                   sigChan, cycle, dispatched>>

\* updateMessage, key esc: back to the inbox view, refreshed; the message
\* that was open is not looked at again before another is opened
updateMessageBack ==
    /\ pc[TuiProc] = "ViewMessage"
    /\ pc' = [pc EXCEPT ![TuiProc] = "ViewInbox"]
    /\ call' = [call EXCEPT ![TuiProc].currentMessage = Absent]
    /\ \E rows \in GetInboxResults(DB, call[TuiProc].identity, TRUE) :
          inbox' = [inbox EXCEPT ![TuiProc] = rows]
    /\ UNCHANGED <<messages, recipients, lock, tx, idx, waited, result, calls, now,
                   sigChan, cycle, dispatched>>

\* the To field of a reply to all: the sender, then the destinations other
\* than the identity
ReplyAllTo(currentMessage, identity) ==
    <<currentMessage.from_id>> \o filterOut(currentMessage.ToIDs, identity)

\* updateMessage, key r: the compose view with the sender in To
updateMessageReply ==
    /\ pc[TuiProc] = "ViewMessage"
    /\ call[TuiProc].currentMessage # Absent
    /\ pc' = [pc EXCEPT ![TuiProc] = "ViewCompose"]
    /\ call' = [call EXCEPT ![TuiProc].key = "r",
                            ![TuiProc].to = <<call[TuiProc].currentMessage.from_id>>]
    /\ UNCHANGED <<messages, recipients, lock, tx, idx, waited, result, inbox, calls, now,
                   sigChan, cycle, dispatched>>

\* updateMessage, key R: the compose view with everybody in To
updateMessageReplyAll ==
    /\ pc[TuiProc] = "ViewMessage"
    /\ call[TuiProc].currentMessage # Absent
    /\ pc' = [pc EXCEPT ![TuiProc] = "ViewCompose"]
    /\ call' = [call EXCEPT ![TuiProc].key = "R",
                            ![TuiProc].to = ReplyAllTo(call[TuiProc].currentMessage,
                                                       call[TuiProc].identity)]
    /\ UNCHANGED <<messages, recipients, lock, tx, idx, waited, result, inbox, calls, now,
                   sigChan, cycle, dispatched>>

\* the db.Message sendMessage builds: ID, FromID, Subject, Body, Priority,
\* MsgType and CreatedAt, and nothing else
TuiMessage(m, id, t) == MessageRow(id, m.identity, NULL, NULL, t)

\* updateCompose, key ctrl+s: sendMessage(to, subject, body) with the To field
\* split at the commas; the view stays
updateComposeSend(id) ==
    /\ pc[TuiProc] = "ViewCompose"
    /\ lock = NoProc
    /\ Len(call[TuiProc].to) > 0
    /\ calls < MaxCommands
    /\ calls' = calls + 1
    /\ LET out == SendOutcome(DB, TuiMessage(call[TuiProc], id, now), call[TuiProc].to) IN
       /\ messages' = out.db.messages
       /\ recipients' = out.db.recipients
       /\ result' = [result EXCEPT ![TuiProc] = Returned("sendMessage", out.err, 0)]
    /\ UNCHANGED <<lock, tx, pc, call, idx, waited, inbox, now, sigChan, cycle, dispatched>>

\* updateCompose, key esc: back to the inbox view; the fields of the compose
\* view are set again whenever it is entered
updateComposeCancel ==
    /\ pc[TuiProc] = "ViewCompose"
    /\ pc' = [pc EXCEPT ![TuiProc] = "ViewInbox"]
    /\ call' = [call EXCEPT ![TuiProc] = Model(call[TuiProc].identity, Absent, "none", <<>>)]
    /\ UNCHANGED <<messages, recipients, lock, tx, idx, waited, result, inbox, calls,
                   now, sigChan, cycle, dispatched>>

\* the TUI of one user, next to the send and reply commands of the others
TuiNext ==
    \/ \E p \in SeqProcs :
        \/ \E fromID \in Senders, resolved \in ResolvedLists, id \in CliIds :
            runSend(p, fromID, resolved, id)
        \/ \E fromID \in Roles, arg \in CliIds, id \in CliIds :
            runReply(p, fromID, arg, FALSE, id)
    \/ \E identity \in Roles : NewModel(identity)
    \/ \E i \in 1..Cardinality(CliIds) : updateInboxEnter(i)
    \/ \E to \in ComposedLists : updateInboxCompose(to)
    \/ updateMessageBack
    \/ updateMessageReply
    \/ updateMessageReplyAll
    \/ \E id \in CliIds : updateComposeSend(id)
    \/ updateComposeCancel

TuiSpec == Init /\ [][TuiNext]_vars

\* ================================================================= claims
HasMessage(rows, id) == \E m \in DOMAIN rows : m.id = id
RowsOfPair(rows, mid, to) == LET P(r) == IsPair(r, mid, to) IN CountWhere(rows, P)
HasRow(rows, mid, to, status) ==
    \E r \in DOMAIN rows : IsPair(r, mid, to) /\ r.status = status
\* this step is a call of op by connection p that returned at once
Returns(p, op) == calls' = calls + 1 /\ result'[p].op = op

\* the first position of rcpts that repeats an earlier entry (0: none)
FirstRepeat(rcpts) ==
    LET reps == {j \in 1..Len(rcpts) : \E i \in 1..(j - 1) : rcpts[i] = rcpts[j]} IN
    IF reps = {} THEN 0 ELSE CHOOSE j \in reps : \A k \in reps : j <= k

\* the message row of msg and one 'unread' row per listed destination exist
Delivered(msgRows, rcptRows, msg, rcpts) ==
    /\ msg \in DOMAIN msgRows
    /\ \A i \in 1..Len(rcpts) : HasRow(rcptRows, msg.id, rcpts[i], "unread")

\* neither a message row nor a recipient row of the id exists
NothingOf(msgRows, rcptRows, id) ==
    /\ ~HasMessage(msgRows, id)
    /\ \A r \in DOMAIN rcptRows : r.message_id # id

\* C1 as stated: for every message and every recipient list with at least
\* one entry, a SendMessage that returns success leaves the message row and
\* one 'unread' recipient row per destination, and a SendMessage that returns
\* an error leaves neither a message row nor a recipient row of that id.
C1_SendAllOrNothingOfId ==
    [][\A p \in Procs, msg \in MessageInputs, rcpts \in RecipientLists :
        (Returns(p, "SendMessage") /\ Len(rcpts) >= 1 /\ SendMessage(p, msg, rcpts)) =>
            IF result'[p].err = NoError
            THEN Delivered(messages', recipients', msg, rcpts)
            ELSE NothingOf(messages', recipients', msg.id)]_vars

\* C1 amended: a SendMessage that returns success leaves the message row and
\* one 'unread' recipient row per destination; a SendMessage that returns an
\* error has written nothing: both tables are as they were before the call
\* (so no row of the failed send exists, and a message stored earlier under
\* the same id stays, with its recipient rows).
C1_SendAtomic ==
    [][\A p \in Procs, msg \in MessageInputs, rcpts \in RecipientLists :
        (Returns(p, "SendMessage") /\ Len(rcpts) >= 1 /\ SendMessage(p, msg, rcpts)) =>
            IF result'[p].err = NoError
            THEN /\ Delivered(messages', recipients', msg, rcpts)
                 /\ RowsOfPair(recipients', msg.id, rcpts[1]) = 1
            ELSE /\ messages' = messages
                 /\ recipients' = recipients
                 /\ HasMessage(messages, msg.id) \/ NothingOf(messages', recipients', msg.id)]_vars

\* C1 witness: m1 was delivered to dev and qa, and a later send of m2 failed
\* on a recipient and left nothing of m2
C1_Witness ==
    /\ result["p1"].op = "SendMessage"
    /\ result["p1"].err.what = "insert recipient"
    /\ HasRow(recipients, "m1", "dev", "unread")
    /\ HasRow(recipients, "m1", "qa", "unread")
    /\ HasMessage(messages, "m1")
    /\ NothingOf(messages, recipients, "m2")

\* C2: CountUnread(toID) is the number of (message, toID) pairs that have a
\* recipient row of status 'unread', and the number of rows of
\* GetInbox(toID, false), in every reachable state.
C2_UnreadCount ==
    \A to \in Roles :
        /\ CountUnread(DB, to) =
             Cardinality({mid \in MsgIds : HasRow(recipients, mid, to, "unread")})
        /\ \A rows \in GetInboxResults(DB, to, FALSE) : Len(rows) = CountUnread(DB, to)

\* C2 witness: dev has two rows, one archived and one unread
C2_Witness ==
    /\ HasRow(recipients, "m1", "dev", "unread")
    /\ HasRow(recipients, "m2", "dev", "archived")
    /\ CountUnread(DB, "dev") = 1

\* C3: Delete(m, A) removes the recipient row (m, A) and nothing else: every
\* other recipient row stays as it is (status, read_at, notified_at), every
\* other role lists the same messages in GetInbox(B, true), and the message
\* rows stay, so GetMessage(m) still finds m.
C3_DeleteIsolated ==
    [][\A p \in Procs, mid \in MsgIds, A \in Roles :
        (Returns(p, "Delete") /\ Delete(p, mid, A)) =>
            /\ messages' = messages
            /\ RowsOfPair(recipients', mid, A) = 0
            /\ \A r \in DOMAIN recipients :
                 ~IsPair(r, mid, A) => r \in DOMAIN recipients' /\ recipients'[r] = recipients[r]
            /\ DOMAIN recipients' \subseteq DOMAIN recipients
            /\ \A B \in Roles \ {A} :
                 GetInboxIds(Tables(messages', recipients'), B, TRUE) = GetInboxIds(DB, B, TRUE)
            /\ GetMessage(Tables(messages', recipients'), mid).found = GetMessage(DB, mid).found]_vars

\* C3 witness: after a Delete, m1 has lost dev's row, qa's row is still
\* 'read', and the message row is there
C3_Witness ==
    /\ result["p1"].op = "Delete"
    /\ calls = 3
    /\ RowsOfPair(recipients, "m1", "dev") = 0
    /\ HasRow(recipients, "m1", "qa", "read")
    /\ GetMessage(DB, "m1").found
    /\ "m1" \in GetInboxIds(DB, "qa", TRUE)

\* connection p is in a SendMessage that no constraint can fail: its id is
\* not stored (and no other connection sends that id) and its recipient list
\* names no role twice
ValidSend(p) ==
    /\ call[p].op = "SendMessage"
    /\ call[p].err = NoError
    /\ ~HasMessage(messages, call[p].msg.id)
    /\ FirstRepeat(call[p].recipients) = 0

\* connection p's last call was a SendMessage that returned nil, and its
\* message is stored
Succeeded(p) ==
    /\ result[p] = Returned("SendMessage", NoError, 0)
    /\ HasMessage(messages, IdOf[p])

\* connection p's last call returned the error of a lock wait that ran out
TimedOut(p) == result[p].err.cause = "busy"

\* C4: connections send at the same time, each its own message id. Every
\* Commit stores the message row and one 'unread' row per destination, no
\* step of a send removes or changes a committed row, and every send that no
\* constraint can fail eventually returns success with its message stored,
\* unless its lock wait ran out.
C4_ConcurrentSendsDurable ==
    /\ [][\A p \in Procs :
            /\ (pc[p] = "commit" /\ pc'[p] = "idle") =>
                 Delivered(messages', recipients', call[p].msg, call[p].recipients)
            /\ (call[p].op = "SendMessage" /\ pc'[p] # pc[p]) =>
                 /\ messages \sqsubseteq messages'
                 /\ recipients \sqsubseteq recipients']_vars
    /\ \A p \in Procs : ValidSend(p) ~> (Succeeded(p) \/ TimedOut(p))

\* C4 witness: both connections' sends returned success, one of them after a
\* wait for the other's transaction, and both messages are stored with
\* their recipient rows
C4_Witness ==
    /\ Succeeded("p1")
    /\ Succeeded("p2")
    /\ waited["p1"] >= 1
    /\ HasRow(recipients, "m1", "dev", "unread")
    /\ HasRow(recipients, "m1", "qa", "unread")
    /\ HasRow(recipients, "m2", "qa", "unread")

\* C5: a SendMessage that finds the write lock held by another connection
\* waits: each retry adds one second to its wait, it gives up only when it
\* has waited 5 seconds with the lock still held, and before that it leaves
\* the wait only by taking the lock once the holder has released it, after
\* which its insert runs as if it had not waited.
C5_BoundedBusyWait ==
    [][\A p \in Procs :
        /\ (pc[p] = "insert_msg" /\ pc'[p] = "rollback" /\ call'[p].err.cause = "busy") =>
             /\ waited[p] >= 5
             /\ lock \notin {NoProc, p}
        /\ (pc[p] = "insert_msg" /\ lock \notin {NoProc, p} /\ waited[p] < 5) =>
             /\ pc'[p] = "insert_msg"
             /\ call'[p] = call[p]
             /\ waited'[p] \in {waited[p], waited[p] + 1}
        /\ (pc[p] = "insert_msg" /\ pc'[p] # "insert_msg" /\ waited[p] < 5) =>
             /\ lock = NoProc
             /\ lock' = p
             /\ call'[p].err = TxInsertMessage(DB, NoTx, call[p].msg).err]_vars

\* C5 witness: p2's send returned success after it waited 4 seconds for
\* p1's transaction
C5_Witness ==
    /\ result["p2"] = Returned("SendMessage", NoError, 0)
    /\ waited["p2"] = 4
    /\ HasMessage(messages, "m1")
    /\ HasRow(recipients, "m2", "dev", "unread")

\* the ids of the messages a result of GetInbox lists
ListedIds(rows) == {rows[i].id : i \in 1..Len(rows)}

\* C6: a GetInbox runs while another connection is inside a SendMessage
\* transaction: its queries take no lock and do not wait, it returns no
\* error, every message it lists is committed, none is a message of the
\* open transaction, and each listed message carries exactly its committed
\* destinations.
C6_ReaderIsolated ==
    [][\A q \in Procs :
        /\ (pc[q] = "idle" /\ pc'[q] = "attach") =>
             /\ lock' = lock
             /\ waited'[q] = 0
             /\ \A id \in ListedIds(inbox'[q]) :
                  /\ HasMessage(messages, id)
                  /\ ~HasMessage(WriterTx.messages, id)
        /\ (pc[q] = "attach" /\ pc'[q] = "idle") =>
             /\ lock' = lock
             /\ waited'[q] = 0
             /\ result'[q] = Returned("GetInbox", NoError, Len(inbox[q]))
             /\ \A i \in 1..Len(inbox'[q]) :
                  /\ inbox'[q][i].ToIDs = MessageRecipients(DB, inbox'[q][i].id)
                  /\ \A r \in DOMAIN WriterTx.recipients :
                       r.message_id # inbox'[q][i].id]_vars

\* C6 witness: p1's GetInbox returned m1 while p2 holds the write lock with
\* m2 and a recipient row of it not yet committed
C6_Witness ==
    /\ result["p1"].op = "GetInbox"
    /\ ListedIds(inbox["p1"]) = {"m1"}
    /\ lock = "p2"
    /\ HasMessage(tx["p2"].messages, "m2")
    /\ HasRow(tx["p2"].recipients, "m2", "dev", "unread")
    /\ ~HasMessage(messages, "m2")

\* C7: in every reachable state each message's thread_id and reply_to_id,
\* when present, is the id of a stored message, and every recipient row's
\* message_id is the id of a stored message.
C7_ReferentialIntegrity ==
    /\ \A m \in DOMAIN messages :
        /\ m.thread_id # NULL => HasMessage(messages, m.thread_id)
        /\ m.reply_to_id # NULL => HasMessage(messages, m.reply_to_id)
    /\ \A r \in DOMAIN recipients : HasMessage(messages, r.message_id)

\* C7 witness: m2 is stored as a reply to the stored m1 and has a recipient
C7_Witness ==
    /\ \E m \in DOMAIN messages : m.id = "m2" /\ m.thread_id = "m1" /\ m.reply_to_id = "m1"
    /\ HasMessage(messages, "m1")
    /\ RowsOfPair(recipients, "m2", "dev") = 1

\* C8: in every reachable state there is at most one recipient row per
\* (message_id, to_id) pair.
C8_RecipientUnique ==
    \A mid \in MsgIds, to \in Roles : RowsOfPair(recipients, mid, to) <= 1

\* C8 witness: four pairs hold a row each, after a mutation
C8_Witness ==
    /\ \A mid \in MsgIds, to \in Roles : RowsOfPair(recipients, mid, to) = 1
    /\ HasRow(recipients, "m2", "qa", "read")

\* a key that names no stored message
NamesNoStored(key) == key # NULL /\ ~HasMessage(messages, key)

\* C9 as stated: a SendMessage whose id is already stored, or whose thread_id
\* or reply_to_id names no stored message, returns an error and leaves both
\* tables as they were.
C9_ConstraintFailureAnyDanglingKey ==
    [][\A p \in Procs, msg \in MessageInputs, rcpts \in RecipientLists :
        (/\ Returns(p, "SendMessage")
         /\ SendMessage(p, msg, rcpts)
         /\ \/ HasMessage(messages, msg.id)
            \/ NamesNoStored(msg.thread_id)
            \/ NamesNoStored(msg.reply_to_id)) =>
            /\ result'[p].err # NoError
            /\ messages' = messages
            /\ recipients' = recipients]_vars

\* C9 amended: a SendMessage whose id is already stored, or whose thread_id
\* or reply_to_id names neither a stored message nor the message being sent,
\* returns an error and leaves both tables as they were.
C9_ConstraintFailureUnchanged ==
    [][\A p \in Procs, msg \in MessageInputs, rcpts \in RecipientLists :
        (/\ Returns(p, "SendMessage")
         /\ SendMessage(p, msg, rcpts)
         /\ \/ HasMessage(messages, msg.id)
            \/ msg.thread_id # msg.id /\ NamesNoStored(msg.thread_id)
            \/ msg.reply_to_id # msg.id /\ NamesNoStored(msg.reply_to_id)) =>
            /\ result'[p].err = Errorf("insert message", NULL, "constraint")
            /\ messages' = messages
            /\ recipients' = recipients]_vars

\* C9 witness: a send failed on the message insert while m1 is stored with a
\* recipient row that is already 'read'
C9_Witness ==
    /\ result["p1"].op = "SendMessage"
    /\ result["p1"].err.what = "insert message"
    /\ calls = 3
    /\ HasMessage(messages, "m1")
    /\ ~HasMessage(messages, "m2")
    /\ HasRow(recipients, "m1", "dev", "read")

\* C10: a SendMessage whose recipient list names a role twice returns an
\* error and leaves both tables as they were; when the message insert
\* passes, the error is that of the second insert of that role.
C10_DuplicateRecipientFails ==
    [][\A p \in Procs, msg \in MessageInputs, rcpts \in RecipientLists :
        (Returns(p, "SendMessage") /\ FirstRepeat(rcpts) > 0 /\ SendMessage(p, msg, rcpts)) =>
            /\ result'[p].err # NoError
            /\ messages' = messages
            /\ recipients' = recipients
            /\ TxInsertMessage(DB, NoTx, msg).err = NoError =>
                 result'[p].err =
                    Errorf("insert recipient", rcpts[FirstRepeat(rcpts)], "constraint")]_vars

\* C10 witness: the first send failed on a recipient insert and the store
\* is empty
C10_Witness ==
    /\ result["p1"].op = "SendMessage"
    /\ result["p1"].err = Errorf("insert recipient", "dev", "constraint")
    /\ messages = NoRows
    /\ recipients = NoRows

\* the rows of table `after` other than (mid, to) are those of `before`
OthersKept(before, after, mid, to) ==
    /\ \A r \in DOMAIN before :
         ~IsPair(r, mid, to) => r \in DOMAIN after /\ after[r] = before[r]
    /\ \A r \in DOMAIN after : ~IsPair(r, mid, to) => r \in DOMAIN before

\* the recipient row of the pair (mid, to), when there is one
RowOf(rows, mid, to) == CHOOSE r \in DOMAIN rows : IsPair(r, mid, to)

\* C11: MarkRead(m, r) on an existing recipient row returns no error and
\* leaves the row 'read', whatever its status was; a second MarkRead(m, r)
\* run right after it, at the same or a later time, leaves the row 'read'
\* again; neither call changes another recipient row or a message row.
C11_MarkReadIdempotent ==
    [][\A p \in Procs, mid \in MsgIds, to \in Roles :
        (/\ Returns(p, "MarkRead")
         /\ MarkRead(p, mid, to)
         /\ RowsOfPair(recipients, mid, to) = 1) =>
            /\ result'[p].err = NoError
            /\ messages' = messages
            /\ RowsOfPair(recipients', mid, to) = 1
            /\ HasRow(recipients', mid, to, "read")
            /\ OthersKept(recipients, recipients', mid, to)
            /\ \A t \in now..MaxClock :
                 LET c == [op |-> "MarkRead", message_id |-> mid, to_id |-> to, at |-> t]
                     twice == StatementRows(recipients', c)
                 IN /\ StatementResult(recipients', c).err = NoError
                    /\ RowsOfPair(twice, mid, to) = 1
                    /\ HasRow(twice, mid, to, "read")
                    /\ OthersKept(recipients', twice, mid, to)]_vars

\* C11 witness: after a send and two more calls, the last a MarkRead at a
\* later time than the first read, dev's row of m1 is 'read' and qa's row
\* is still 'unread'
C11_Witness ==
    /\ result["p1"] = Returned("MarkRead", NoError, 0)
    /\ calls = 3
    /\ now = 1
    /\ RowsOfPair(recipients, "m1", "dev") = 1
    /\ RowOf(recipients, "m1", "dev").status = "read"
    /\ RowOf(recipients, "m1", "dev").read_at = 1
    /\ HasRow(recipients, "m1", "qa", "unread")

\* an operation other than MarkRead(mid, to) leaves the read_at of the row
\* (mid, to), when the row is still there after it
ReadAtKept(mid, to) ==
    (RowsOfPair(recipients, mid, to) = 1 /\ RowsOfPair(recipients', mid, to) = 1) =>
        RowOf(recipients', mid, to).read_at = RowOf(recipients, mid, to).read_at

\* the row (mid, to) has no read_at while it is 'unread', has one while it
\* is 'read', a step that makes it 'read' sets read_at to the time of the
\* call, and no other step sets a read_at that was absent
ReadAtSetWhenRead(mid, to) ==
    /\ RowsOfPair(recipients, mid, to) = 1 =>
         LET r == RowOf(recipients, mid, to) IN
         /\ r.status = "unread" => r.read_at = NoTime
         /\ r.status = "read" => r.read_at # NoTime
    /\ (/\ RowsOfPair(recipients, mid, to) = 1
        /\ RowsOfPair(recipients', mid, to) = 1
        /\ RowOf(recipients, mid, to).status # "read"
        /\ RowOf(recipients', mid, to).status = "read") =>
         RowOf(recipients', mid, to).read_at = now
    /\ (/\ RowsOfPair(recipients, mid, to) = 1
        /\ RowsOfPair(recipients', mid, to) = 1
        /\ RowOf(recipients, mid, to).read_at = NoTime
        /\ RowOf(recipients', mid, to).status # "read") =>
         RowOf(recipients', mid, to).read_at = NoTime

\* C12 as stated: read_at is absent until the row's first transition to
\* 'read', is set at that transition, and no later operation on the row
\* changes it.
C12_ReadAtSetOnce ==
    [][\A mid \in MsgIds, to \in Roles :
        /\ ReadAtSetWhenRead(mid, to)
        /\ (/\ RowsOfPair(recipients, mid, to) = 1
            /\ RowOf(recipients, mid, to).read_at # NoTime) => ReadAtKept(mid, to)]_vars

\* C12 amended: read_at is absent until the row's first transition to
\* 'read' and is set at that transition; MarkAllRead, Archive, MarkNotified
\* and every operation on another row leave it as it is, while every
\* MarkRead of the row, a repeated one too, sets it to the time of that call.
C12_ReadAtLastMarkRead ==
    [][\A mid \in MsgIds, to \in Roles :
        /\ ReadAtSetWhenRead(mid, to)
        /\ IF \E p \in Procs : Returns(p, "MarkRead") /\ MarkRead(p, mid, to)
           THEN RowsOfPair(recipients', mid, to) = 1 =>
                   RowOf(recipients', mid, to).read_at = now
           ELSE (/\ RowsOfPair(recipients, mid, to) = 1
                 /\ RowOf(recipients, mid, to).read_at # NoTime) => ReadAtKept(mid, to)]_vars

\* C12 witness: dev's row of m1 was read at time 0 and notified at time 1,
\* and its read_at is still 0
C12_Witness ==
    /\ result["p1"].op = "MarkNotified"
    /\ RowsOfPair(recipients, "m1", "dev") = 1
    /\ RowOf(recipients, "m1", "dev").status = "read"
    /\ RowOf(recipients, "m1", "dev").read_at = 0
    /\ RowOf(recipients, "m1", "dev").notified_at = 1

\* C13: MarkAllRead(toID) returns the number of toID's rows that were
\* 'unread' before the call and makes exactly those rows 'read', read at the
\* time of the call; toID's 'read' and 'archived' rows, other recipients'
\* rows and the message rows stay as they are, and the same call repeated
\* right after returns 0 and changes nothing.
C13_MarkAllReadCount ==
    [][\A p \in Procs, to \in Roles :
        (Returns(p, "MarkAllRead") /\ MarkAllRead(p, to)) =>
            /\ result'[p].err = NoError
            /\ result'[p].n =
                 Cardinality({mid \in MsgIds : HasRow(recipients, mid, to, "unread")})
            /\ messages' = messages
            /\ BagCardinality(recipients') = BagCardinality(recipients)
            /\ \A r \in DOMAIN recipients :
                 IF r.to_id = to /\ r.status = "unread"
                 THEN [r EXCEPT !.status = "read", !.read_at = now] \in DOMAIN recipients'
                 ELSE r \in DOMAIN recipients'
            /\ \A t \in now..MaxClock :
                 LET c == [op |-> "MarkAllRead", message_id |-> NULL, to_id |-> to, at |-> t]
                 IN /\ StatementResult(recipients', c) = Returned("MarkAllRead", NoError, 0)
                    /\ StatementRows(recipients', c) = recipients']_vars

\* C13 witness: MarkAllRead(dev) returned 1: dev's row of m1 is 'read' and
\* qa's row of m1 is still 'unread'
C13_Witness ==
    /\ result["p1"] = Returned("MarkAllRead", NoError, 1)
    /\ HasRow(recipients, "m1", "dev", "read")
    /\ HasRow(recipients, "m1", "qa", "unread")

\* the tables after the step
DBAfter == Tables(messages', recipients')

\* C14: Archive(m, r) on an existing recipient row makes the row
\* 'archived': m is not in GetInbox(r, false) and not counted by
\* CountUnread(r), m is in GetInbox(r, true), and every other recipient's
\* rows, inbox results and unread count are what they were.
C14_ArchiveVisibility ==
    [][\A p \in Procs, mid \in MsgIds, to \in Roles :
        (/\ Returns(p, "Archive")
         /\ Archive(p, mid, to)
         /\ RowsOfPair(recipients, mid, to) = 1) =>
            /\ result'[p].err = NoError
            /\ RowsOfPair(recipients', mid, to) = 1
            /\ HasRow(recipients', mid, to, "archived")
            /\ mid \notin GetInboxIds(DBAfter, to, FALSE)
            /\ CountUnread(DBAfter, to) =
                 Cardinality({x \in MsgIds \ {mid} : HasRow(recipients, x, to, "unread")})
            /\ mid \in GetInboxIds(DBAfter, to, TRUE)
            /\ OthersKept(recipients, recipients', mid, to)
            /\ \A B \in Roles \ {to} :
                 /\ CountUnread(DBAfter, B) = CountUnread(DB, B)
                 /\ \A includeRead \in BOOLEAN :
                      GetInboxResults(DBAfter, B, includeRead) =
                          GetInboxResults(DB, B, includeRead)]_vars

\* C14 witness: dev archived m1: m1 is out of dev's unread listing, in dev's
\* full listing, and in qa's unread listing as before
C14_Witness ==
    /\ result["p1"] = Returned("Archive", NoError, 0)
    /\ HasRow(recipients, "m1", "dev", "archived")
    /\ HasRow(recipients, "m1", "qa", "unread")
    /\ "m1" \notin GetInboxIds(DB, "dev", FALSE)
    /\ "m1" \in GetInboxIds(DB, "dev", TRUE)
    /\ "m1" \in GetInboxIds(DB, "qa", FALSE)

\* the stored message of the id
MessageOf(id) == CHOOSE m \in DOMAIN messages : m.id = id

\* C15: every result GetInbox(toID, includeRead) can return lists exactly
\* the messages that have a recipient row for toID (an 'unread' row when
\* includeRead is false, a row of any status when it is true), each once,
\* with the row's status and read_at, a message created later before a
\* message created earlier.
C15_GetInboxRows ==
    \A to \in Roles, includeRead \in BOOLEAN :
        LET results == GetInboxResults(DB, to, includeRead)
            wanted == {mid \in MsgIds :
                         \E r \in DOMAIN recipients :
                            /\ IsPair(r, mid, to)
                            /\ includeRead \/ r.status = "unread"}
        IN /\ results # {}
           /\ \A rows \in results :
                /\ ListedIds(rows) = wanted
                /\ Len(rows) = Cardinality(wanted)
                /\ \A i \in 1..Len(rows) :
                     /\ rows[i].created_at = MessageOf(rows[i].id).created_at
                     /\ rows[i].from_id = MessageOf(rows[i].id).from_id
                     /\ rows[i].status = RowOf(recipients, rows[i].id, to).status
                     /\ rows[i].read_at = RowOf(recipients, rows[i].id, to).read_at
                /\ \A i, j \in 1..Len(rows) :
                     MessageOf(rows[i].id).created_at > MessageOf(rows[j].id).created_at
                        => i < j

\* C15 witness: dev has the archived m1, created at 0, and the unread m2,
\* created at 1; the full listing is m2, m1 and the unread listing is m2
C15_Witness ==
    /\ HasRow(recipients, "m1", "dev", "archived")
    /\ HasRow(recipients, "m2", "dev", "unread")
    /\ \E rows \in GetInboxResults(DB, "dev", TRUE) :
         /\ Len(rows) = 2
         /\ rows[1].id = "m2" /\ rows[1].created_at = 1
         /\ rows[2].id = "m1" /\ rows[2].created_at = 0
    /\ \A rows \in GetInboxResults(DB, "dev", FALSE) : ListedIds(rows) = {"m2"}

\* the roles of list rcpts in the order of ByName, each once
InOrderOfName(rcpts) ==
    LET Listed(x) == \E i \in 1..Len(rcpts) : rcpts[i] = x IN SelectSeq(ByName, Listed)

\* after the step every row of message msg that GetMessage, GetInbox and
\* GetThread return carries the ToIDs `list`, and the sender's inbox lists
\* msg exactly when the sender is in rcpts
CarriesToIDs(msg, rcpts, list) ==
    /\ GetMessage(DBAfter, msg.id).found
    /\ GetMessage(DBAfter, msg.id).ToIDs = list
    /\ \A to \in Roles, includeRead \in BOOLEAN :
         \A rows \in GetInboxResults(DBAfter, to, includeRead) :
            /\ msg.id \in ListedIds(rows) <=> \E i \in 1..Len(rcpts) : rcpts[i] = to
            /\ \A i \in 1..Len(rows) : rows[i].id = msg.id => rows[i].ToIDs = list
    /\ \A root \in MsgIds :
         \A rows \in GetThreadResults(DBAfter, root) :
            /\ root = msg.id => msg.id \in ListedIds(rows)
            /\ \A i \in 1..Len(rows) : rows[i].id = msg.id => rows[i].ToIDs = list
    /\ \A includeRead \in BOOLEAN :
         msg.id \in GetInboxIds(DBAfter, msg.from_id, includeRead)
            <=> \E i \in 1..Len(rcpts) : rcpts[i] = msg.from_id

\* C16 as stated: after a successful SendMessage of m from S to the list L,
\* every row for m returned by GetInbox, GetMessage or GetThread carries
\* ToIDs equal to the list L, and GetInbox(S, .) lists m only if S is in L.
C16_ToIDsIsTheList ==
    [][\A p \in Procs, msg \in MessageInputs, rcpts \in RecipientLists :
        (/\ Returns(p, "SendMessage")
         /\ result'[p].err = NoError
         /\ SendMessage(p, msg, rcpts)) => CarriesToIDs(msg, rcpts, rcpts)]_vars

\* C16 amended: after a successful SendMessage of m from S to the list L,
\* every row for m returned by GetInbox, GetMessage or GetThread carries as
\* ToIDs all the destinations of L, each once, in the order of their names
\* (the order of the recipients query, which need not be the order of L), and
\* GetInbox(S, .) lists m exactly when S is in L.
C16_ToIDsAllDestinations ==
    [][\A p \in Procs, msg \in MessageInputs, rcpts \in RecipientLists :
        (/\ Returns(p, "SendMessage")
         /\ result'[p].err = NoError
         /\ SendMessage(p, msg, rcpts)) =>
            CarriesToIDs(msg, rcpts, InOrderOfName(rcpts))]_vars

\* C16 witness: dev has sent m1 to dev and qa and m2 to qa alone: m1 carries
\* both destinations and is in dev's own inbox, m2 is not
C16_Witness ==
    /\ result["p1"] = Returned("SendMessage", NoError, 0)
    /\ GetMessage(DB, "m1").found
    /\ GetMessage(DB, "m1").from_id = "dev"
    /\ GetMessage(DB, "m1").ToIDs = <<"dev", "qa">>
    /\ GetMessage(DB, "m2").found
    /\ GetMessage(DB, "m2").ToIDs = <<"qa">>
    /\ GetInboxIds(DB, "dev", TRUE) = {"m1"}
    /\ GetInboxIds(DB, "qa", TRUE) = {"m1", "m2"}

\* a lookup that found nothing: no message and no error
NotFound == Looked(Absent, NoError)

\* C17: in every state, GetMessage(id) with no stored message of that id,
\* GetMessageForRecipient(id, toID) with no recipient row (id, toID) (the
\* message may still be stored, as after Delete(id, toID)),
\* FindMessageByPrefix with no stored id of that prefix and GetLatestUnread
\* with no unread row each return no message together with a nil error, and
\* a lookup that has a row to find returns a message.
C17_NotFoundIsAValue ==
    /\ \A id \in MsgIds :
         IF HasMessage(messages, id)
         THEN \A r \in GetMessageReturns(DB, id) : r.msg.found /\ r.err = NoError
         ELSE GetMessageReturns(DB, id) = {NotFound}
    /\ \A id \in MsgIds, to \in Roles :
         IF HasMessage(messages, id) /\ RowsOfPair(recipients, id, to) > 0
         THEN \A r \in GetMessageForRecipientReturns(DB, id, to) :
                 r.msg.found /\ r.err = NoError
         ELSE GetMessageForRecipientReturns(DB, id, to) = {NotFound}
    /\ \A prefix \in Prefixes :
         IF \E id \in MsgIds : HasMessage(messages, id) /\ HasPrefix(id, prefix)
         THEN \A r \in FindMessageByPrefixReturns(DB, prefix) :
                 r.msg.found /\ r.err = NoError
         ELSE FindMessageByPrefixReturns(DB, prefix) = {NotFound}
    /\ \A to \in Roles :
         IF CountUnread(DB, to) > 0
         THEN \A r \in GetLatestUnreadReturns(DB, to) : r.msg.found /\ r.err = NoError
         ELSE GetLatestUnreadReturns(DB, to) = {NotFound}

\* C17 witness: Delete("m1", "dev") has just returned: m1 is still stored and
\* still in qa's inbox, dev has no row of it and no unread row at all, and no
\* message m2 was ever stored
C17_Witness ==
    /\ result["p1"] = Returned("Delete", NoError, 0)
    /\ HasMessage(messages, "m1")
    /\ ~HasMessage(messages, "m2")
    /\ RowsOfPair(recipients, "m1", "dev") = 0
    /\ RowsOfPair(recipients, "m1", "qa") = 1
    /\ GetMessage(DB, "m1").found
    /\ GetMessageForRecipientReturns(DB, "m1", "dev") = {NotFound}
    /\ GetMessageReturns(DB, "m2") = {NotFound}
    /\ FindMessageByPrefixReturns(DB, "m2") = {NotFound}
    /\ GetLatestUnreadReturns(DB, "dev") = {NotFound}

\* the stored messages GetThread(root) selects
ThreadMembers(rows, root) == {m \in DOMAIN rows : m.id = root \/ m.thread_id = root}
\* the message a result row shows
ShownMessage(row) ==
    MessageRow(row.id, row.from_id, row.thread_id, row.reply_to_id, row.created_at)
\* the lists of messages GetThread(root) can return on database state db
ThreadLists(db, root) ==
    {[i \in 1..Len(rows) |-> ShownMessage(rows[i])] : rows \in GetThreadResults(db, root)}

\* in this state every result of GetThread(root) is exactly the stored
\* messages of the thread, each once, oldest first, the root before every
\* reply that is younger than it
ThreadListed(root) ==
    /\ ThreadLists(DB, root) # {}
    /\ \A list \in ThreadLists(DB, root) :
        /\ Len(list) = Cardinality(ThreadMembers(messages, root))
        /\ {list[i] : i \in 1..Len(list)} = ThreadMembers(messages, root)
        /\ \A i, j \in 1..Len(list) :
            /\ i < j => list[i].created_at <= list[j].created_at
            /\ (list[j].id = root /\ i < j) => list[i].created_at = list[j].created_at

StoredAfter(id) == CHOOSE m \in DOMAIN messages' : m.id = id

\* C19: a CLI reply that succeeds stores one new message, with reply_to_id
\* the id of the original message O it found and thread_id the thread_id of
\* O when O has one, otherwise the id of O.
C19_ReplyThreadingRule ==
    [][\A p \in SeqProcs :
        (Returns(p, "runReply") /\ result'[p].err = NoError) =>
          \A fromID \in Roles, arg \in CliArgs, all \in BOOLEAN, id \in CliIds :
            runReply(p, fromID, arg, all, id) =>
                LET O == OriginalMsg(DB, fromID, arg).msg IN
                /\ O.found
                /\ HasMessage(messages, O.id)
                /\ ~HasMessage(messages, id)
                /\ HasMessage(messages', id)
                /\ messages' = messages (+) SetToBag({StoredAfter(id)})
                /\ StoredAfter(id).reply_to_id = O.id
                /\ StoredAfter(id).thread_id =
                     (IF O.thread_id # NULL THEN O.thread_id ELSE O.id)]_vars

\* C19 witness: m2 is a stored reply to the root m1 and the reply m3 to m2
\* has just been stored: m2 took m1's id as thread, m3 took m2's thread
C19_Witness ==
    /\ result["p1"] = Returned("runReply", NoError, 0)
    /\ \E m \in DOMAIN messages : m.id = "m1" /\ m.thread_id = NULL
    /\ \E m \in DOMAIN messages :
         m.id = "m2" /\ m.reply_to_id = "m1" /\ m.thread_id = "m1"
    /\ \E m \in DOMAIN messages :
         m.id = "m3" /\ m.reply_to_id = "m2" /\ m.thread_id = "m1" /\ m.created_at = now

\* message m answers the message of id rootID, directly or through at most
\* n further replies
RECURSIVE RepliesTo(_, _, _)
RepliesTo(m, rootID, n) ==
    /\ m.reply_to_id # NULL
    /\ \/ m.reply_to_id = rootID
       \/ /\ n > 0
          /\ \E parent \in DOMAIN messages :
               parent.id = m.reply_to_id /\ RepliesTo(parent, rootID, n - 1)

\* C20: after any sequence of CLI sends and CLI replies, a stored message is
\* a reply (has a reply_to_id) exactly when it has a thread_id, every
\* thread_id is the id of a stored message that has no thread_id, and for
\* every message with no thread_id GetThread of its id lists that message
\* together with every message that answers it directly or indirectly, and
\* no other.
C20_FlatThreads ==
    /\ \A m \in DOMAIN messages :
        /\ m.reply_to_id # NULL <=> m.thread_id # NULL
        /\ m.thread_id # NULL =>
             \E root \in DOMAIN messages : root.id = m.thread_id /\ root.thread_id = NULL
    /\ \A root \in DOMAIN messages :
         root.thread_id = NULL =>
            \A rows \in GetThreadResults(DB, root.id) :
               ListedIds(rows) =
                  {root.id} \cup
                  {m.id : m \in {x \in DOMAIN messages :
                                    RepliesTo(x, root.id, Cardinality(CliIds))}}

\* C20 witness: the root m1 has the reply m2 and m2 has the reply m3, sent
\* later than m2: GetThread("m1") lists the three, GetThread("m2") only m2
C20_Witness ==
    /\ \E m \in DOMAIN messages : m.id = "m1" /\ m.thread_id = NULL
    /\ \E m \in DOMAIN messages : m.id = "m2" /\ m.reply_to_id = "m1" /\ m.created_at = 0
    /\ \E m \in DOMAIN messages : m.id = "m3" /\ m.reply_to_id = "m2" /\ m.created_at = 1
    /\ \A rows \in GetThreadResults(DB, "m1") :
         Len(rows) = 3 /\ rows[3].id = "m3" /\ ListedIds(rows) = {"m1", "m2", "m3"}
    /\ \A rows \in GetThreadResults(DB, "m2") : ListedIds(rows) = {"m2"}

\* the roles of a sequence
RolesOf(list) == {list[i] : i \in 1..Len(list)}
\* the roles and destination lists of an original message, as any caller of
\* the store may have sent it: the sender may be among the destinations
AnyRoles == {"pm", "dev", "qa"}
AnyToIDs == UNION {[1..n -> AnyRoles] : n \in 0..2}

\* the roles a reply by fromID to a message of sender `from` and destinations
\* `to` is addressed to
Addressees(from, to, fromID, all) ==
    IF all THEN ({from} \cup to) \ {fromID} ELSE {from}

\* ReplyRecipients on every original message: when it returns no error its
\* list is the addressees, each once, never the replier; it returns an error
\* exactly when there is no addressee or the replier answers its own message
\* without --all
C21_AnyOriginal ==
    \A from \in AnyRoles, to \in AnyToIDs, fromID \in AnyRoles, all \in BOOLEAN :
        LET O == [id |-> "m1", from_id |-> from, ToIDs |-> to]
            r == ReplyRecipients(O, fromID, all)
            list == r.recipients
        IN IF (~all /\ from = fromID) \/ Addressees(from, RolesOf(to), fromID, all) = {}
           THEN r.err # NoError
           ELSE /\ r.err = NoError
                /\ RolesOf(list) = Addressees(from, RolesOf(to), fromID, all)
                /\ \A i, j \in 1..Len(list) : list[i] = list[j] => i = j
                /\ fromID \notin RolesOf(list)

InScope(prefix, toID) ==
    {m \in DOMAIN messages :
        HasPrefix(m.id, prefix) /\ RowsOfPair(recipients, m.id, toID) > 0}

\* C22: findMessageByPrefix(prefix, toID) looks only at the messages that
\* have a recipient row for toID, of any status: with no such message whose
\* id starts with prefix it returns no message and no error, with exactly
\* one it returns that message with the status of toID's row, and with
\* several it returns no message and the ambiguity error that names the
\* prefix and the number of matches.
C22_InboxScopedPrefix ==
    \A toID \in Roles, prefix \in Prefixes :
        LET scope == InScope(prefix, toID)
            r == findMessageByPrefix(DB, prefix, toID)
        IN IF scope = {} THEN r = Looked(Absent, NoError)
           ELSE IF Cardinality(scope) = 1
                THEN /\ r.err = NoError
                     /\ r.msg.found
                     /\ ShownMessage(r.msg) \in scope
                     /\ r.msg.status = RowOf(recipients, r.msg.id, toID).status
                ELSE /\ r.msg = Absent
                     /\ r.err = Ambiguous(prefix, Cardinality(scope))

\* C22 witness: m1 and m2 are stored; qa has an archived row of m1 and an
\* unread row of m2, dev has a row of m2 only: "m" is ambiguous for qa with
\* two matches and resolves to m2 for dev, "m1" finds nothing for dev
C22_Witness ==
    /\ HasRow(recipients, "m1", "qa", "archived")
    /\ HasRow(recipients, "m2", "qa", "unread")
    /\ RowsOfPair(recipients, "m1", "dev") = 0
    /\ RowsOfPair(recipients, "m2", "dev") = 1
    /\ findMessageByPrefix(DB, "m", "qa") = Looked(Absent, Ambiguous("m", 2))
    /\ findMessageByPrefix(DB, "m", "dev").msg.found
    /\ findMessageByPrefix(DB, "m", "dev").msg.id = "m2"
    /\ findMessageByPrefix(DB, "m1", "dev") = Looked(Absent, NoError)

\* the stored messages whose id starts with prefix
StoredWithPrefix(prefix) == {m \in DOMAIN messages : HasPrefix(m.id, prefix)}

\* C23: every command that takes a message-id prefix (read, mark-read,
\* archive, delete, reply, thread) and returns without error has resolved
\* the prefix to the one message of its search scope that matches it: the
\* caller's inbox for read, mark-read, archive and delete; the replier's
\* inbox and, when that has no match, all stored messages for reply; all
\* stored messages for thread. A prefix with several matches in the scope
\* never lets the command proceed.
C23_NoSilentPick ==
    [][\A p \in SeqProcs :
        (calls' = calls + 1 /\ result'[p].err = NoError) =>
          /\ result'[p].op \in {"runRead", "runMarkRead", "runArchive", "runDelete"} =>
               \A toID \in Roles, arg \in CliArgs :
                  (\/ runRead(p, toID, arg)
                   \/ runMarkRead(p, toID, arg)
                   \/ runArchive(p, toID, arg)
                   \/ runDelete(p, toID, arg)) => Cardinality(InScope(arg, toID)) = 1
          /\ result'[p].op = "runReply" =>
               \A fromID \in Roles, arg \in CliArgs, all \in BOOLEAN, id \in CliIds :
                  runReply(p, fromID, arg, all, id) =>
                     \/ Cardinality(InScope(arg, fromID)) = 1
                     \/ InScope(arg, fromID) = {} /\ Cardinality(StoredWithPrefix(arg)) = 1
          /\ result'[p].op = "runThread" =>
               \A arg \in CliArgs :
                  runThread(p, arg) => Cardinality(StoredWithPrefix(arg)) = 1]_vars


\* the watcher is inside a poll cycle or has just completed one
InCycle == pc[Watcher] \in {"dispatch", "mark", "select"}

\* the entry of the cycle at position k belongs to the row of GetUnnotified at
\* position (k + 1) \div 2: first its dispatch, then its MarkNotified
CycleEntryInPlace(k) ==
    LET m == inbox[Watcher][(k + 1) \div 2]
    IN /\ cycle[Watcher][k].id = m.id
       /\ k % 2 = 1 => cycle[Watcher][k].do = "dispatch" /\ cycle[Watcher][k].how \in DispatchOutcomes
       /\ k % 2 = 0 => cycle[Watcher][k].do = "MarkNotified"

\* C24: in each poll cycle the watcher calls MarkNotified(m, role) for every
\* message m that GetUnnotified returned, after the dispatch attempts for m and
\* whatever their outcome: the cycle is, row after row, a dispatch then a call
\* of MarkNotified, and a completed cycle went through all the rows
C24_MarkAfterDispatch ==
    InCycle =>
        /\ Len(cycle[Watcher]) = 2 * (idx[Watcher] - 1) + (IF pc[Watcher] = "mark" THEN 1 ELSE 0)
        /\ pc[Watcher] = "select" => idx[Watcher] = Len(inbox[Watcher]) + 1
        /\ pc[Watcher] # "select" => idx[Watcher] \in 1..Len(inbox[Watcher])
        /\ \A k \in 1..Len(cycle[Watcher]) : CycleEntryInPlace(k)

\* a completed cycle of two messages in which a dispatch returned errors, one
\* had no command, and both were marked
C24_Witness ==
    /\ pc[Watcher] = "select"
    /\ Len(cycle[Watcher]) = 4
    /\ {cycle[Watcher][1].how, cycle[Watcher][3].how} = {"errors", "no command"}
    /\ cycle[Watcher][2].do = "MarkNotified"
    /\ cycle[Watcher][4].do = "MarkNotified"


\* the recipient row of message id and the watcher's role has notified_at set
Notified(id) ==
    \E r \in DOMAIN recipients :
        r.message_id = id /\ r.to_id = WatchRole /\ r.notified_at # NoTime

\* once notified_at is set for a pair, no dispatch is made for the pair, in
\* the same watcher process or in one started later
NoDispatchOnceNotified ==
    [][\A outcome \in DispatchOutcomes :
          WatchDispatch(Watcher, outcome) => ~Notified(Current(Watcher).id)]_vars

\* C25: once notified_at is set for a (message, role) pair no later poll cycle
\* of the role's watcher dispatches for the pair again, in the same process or
\* in a new one, and with a single watcher per role each pair is dispatched at
\* most once
C25_WatcherIdempotence ==
    /\ NoDispatchOnceNotified
    /\ [](\A id \in MsgIds : dispatched[Watcher][id] <= 1)

\* a message is dispatched a second time while its row is still not notified
C25_Witness ==
    /\ \E id \in MsgIds : dispatched[Watcher][id] = 2 /\ ~Notified(id)
    /\ pc[Watcher] = "mark"


\* the recipient row of message id and the watcher's role is unread
Unread(id) ==
    \E r \in DOMAIN recipients :
        r.message_id = id /\ r.to_id = WatchRole /\ r.status = "unread"

\* a watcher process exists
Watching == pc[Watcher] # "idle"

\* C26: every row of the watcher's role that is unread with notified_at unset,
\* sent while the watcher was running or before it started, is eventually
\* dispatched and marked notified by the initial check or a later tick,
\* provided the row stays unread and undeleted and the watcher keeps running
C26_NoMissedNotification ==
    \A id \in MsgIds :
        (Watching /\ Unread(id) /\ ~Notified(id))
            ~> \/ Notified(id) /\ dispatched[Watcher][id] >= 1
               \/ ~Unread(id)
               \/ ~Watching

\* a poll cycle that dispatched a message and marked it notified, and left
\* the row unread
C26_Witness ==
    /\ pc[Watcher] = "select"
    /\ \E k \in 1..Len(cycle[Watcher]) :
          /\ cycle[Watcher][k] = Did("MarkNotified", cycle[Watcher][k].id, "nil")
          /\ Notified(cycle[Watcher][k].id)
          /\ Unread(cycle[Watcher][k].id)
          /\ dispatched[Watcher][cycle[Watcher][k].id] >= 1


\* the poll cycle the watcher was in is complete: every row GetUnnotified
\* returned had its dispatch and its MarkNotified call
CycleComplete ==
    /\ Len(cycle[Watcher]) = 2 * Len(inbox[Watcher])
    /\ \A k \in 1..Len(cycle[Watcher]) : CycleEntryInPlace(k)

\* the watcher returns only from the select between two cycles, with the
\* cycle before it completed, and without error
ExitsBetweenTicks ==
    [][(pc[Watcher] # "idle" /\ pc'[Watcher] = "idle") =>
          /\ pc[Watcher] = "select"
          /\ sigChan[Watcher] = 1
          /\ CycleComplete
          /\ result'[Watcher] = Returned("runWatch", NoError, 0)]_vars

\* a signal does not cut a cycle short: while it is in the channel the steps
\* of the cycle go on as they would without it
SignalLeavesCycle ==
    [][(sigChan[Watcher] = 1 /\ pc[Watcher] \in {"check", "dispatch", "mark"}) =>
          pc'[Watcher] # "idle" /\ sigChan'[Watcher] = 1]_vars

\* C27: after SIGINT or SIGTERM is delivered the watcher loop eventually
\* returns without error; a poll cycle in progress is completed, and the loop
\* exits between ticks
C27_WatcherTermination ==
    /\ (sigChan[Watcher] = 1) ~> (pc[Watcher] = "idle" /\ result[Watcher] = Returned("runWatch", NoError, 0))
    /\ ExitsBetweenTicks
    /\ SignalLeavesCycle

\* the signal arrived in the middle of a cycle of two messages, after the
\* first dispatch
C27_Witness ==
    /\ sigChan[Watcher] = 1
    /\ pc[Watcher] = "mark"
    /\ Len(inbox[Watcher]) = 2
    /\ idx[Watcher] = 1


\* connection p's SendMessage has waited the whole busy timeout for the write
\* lock and another connection still holds it
WaitedInVain(p) ==
    pc[p] = "insert_msg" /\ ~LockFree(p) /\ waited[p] >= BusyTimeout

\* connection p's SendMessage is about to return the busy error
FailingBusy(p) == pc[p] = "rollback" /\ call[p].err.cause = "busy"

\* connection p takes the step
StepOf(p) == pc'[p] # pc[p] \/ waited'[p] # waited[p] \/ call'[p] # call[p]

\* C28: a SendMessage that cannot take the write lock because another writer
\* holds it for the whole bounded wait returns an error once the wait has
\* elapsed; the store does not start the call again on its own, and the
\* failed send leaves no message row and no recipient row
C28_ContentionTimeout ==
    /\ [][\A p \in Procs :
            /\ (WaitedInVain(p) /\ StepOf(p)) =>
                  /\ FailingBusy(p)'
                  /\ call'[p].err = Errorf("insert message", NULL, "busy")
                  /\ tx[p] = NoTx /\ tx'[p] = NoTx
                  /\ DBAfter = DB
            /\ (FailingBusy(p) /\ StepOf(p)) =>
                  /\ pc'[p] = "idle"
                  /\ result'[p] = Returned("SendMessage", call[p].err, 0)
                  /\ calls' = calls
                  /\ lock' = lock
                  /\ DBAfter = DB]_vars
    /\ \A p \in Procs : WaitedInVain(p) ~> (pc[p] = "idle" \/ LockFree(p))
    /\ \A p \in Procs : FailingBusy(p) ~> (pc[p] = "idle" /\ result[p].err.cause = "busy")

\* p2's first SendMessage returned the busy error after the whole wait while
\* p1 was in its transaction, and nothing of m2 is stored
C28_Witness ==
    /\ result["p2"] = Returned("SendMessage", Errorf("insert message", NULL, "busy"), 0)
    /\ waited["p2"] = BusyTimeout
    /\ pc["p2"] = "idle"
    /\ lock = "p1"
    /\ ~HasMessage(messages, "m2")
    /\ \A r \in DOMAIN recipients : r.message_id # "m2"


\* the calls of the store that return
StoreCalls ==
    {"SendMessage", "MarkRead", "MarkAllRead", "Archive", "Delete", "MarkNotified",
     "Init", "Close"}

\* C29: once a message row is committed by SendMessage no store operation
\* (MarkRead, MarkAllRead, Archive, Delete, MarkNotified, a later SendMessage,
\* Init, Close) changes a field of it or removes it: every call leaves each
\* stored message row as it is, and the table changes only by the one row a
\* successful SendMessage adds
C29_MessageImmutability ==
    [][\A p \in SeqProcs :
        /\ calls' = calls + 1 =>
              /\ result'[p].op \in StoreCalls
              /\ messages \sqsubseteq messages'
              /\ \A m \in DOMAIN messages : CopiesIn(m, messages') = CopiesIn(m, messages)
        /\ messages' # messages =>
              /\ result'[p] = Returned("SendMessage", NoError, 0)
              /\ BagCardinality(messages') = BagCardinality(messages) + 1]_vars

\* a message whose only recipient row was deleted, and after
\* which Init and Close were called, is still stored
C29_Witness ==
    /\ HasMessage(messages, "m1")
    /\ \A r \in DOMAIN recipients : r.message_id # "m1"
    /\ result["p1"].op \in {"Init", "Close"}
    /\ calls = MaxCalls


\* what a query started after the step reads
ViewAfter == ReadView(DBAfter, IF lock' = NoProc THEN NoTx ELSE tx'[lock'])

\* the roles of a recipient list
Listed(rcpts) == {rcpts[i] : i \in 1..Len(rcpts)}

\* the result rows of a query list message id as unread with the roles tos as
\* its destinations
ListsWith(rows, id, tos) ==
    \E i \in 1..Len(rows) :
        /\ rows[i].id = id
        /\ rows[i].status = "unread"
        /\ Listed(rows[i].ToIDs) = tos
        /\ Len(rows[i].ToIDs) = Cardinality(tos)

\* the queries started after the SendMessage of call c returned reflect its
\* message and every recipient row of it
VisibleAfter(c) ==
    LET db == ViewAfter
        id == c.msg.id
        tos == Listed(c.recipients)
    IN /\ \A r \in GetMessageReturns(db, id) :
             /\ r.err = NoError
             /\ r.msg.found
             /\ r.msg.id = id
             /\ r.msg.from_id = c.msg.from_id
             /\ r.msg.created_at = c.msg.created_at
             /\ Listed(r.msg.ToIDs) = tos
       /\ \A rows \in GetThreadResults(db, id) : \E i \in 1..Len(rows) : rows[i].id = id
       /\ \A to \in tos :
             /\ \A rows \in GetInboxResults(db, to, FALSE) : ListsWith(rows, id, tos)
             /\ \A rows \in GetInboxResults(db, to, TRUE) : ListsWith(rows, id, tos)
             /\ \A rows \in GetUnnotifiedResults(db, to) : ListsWith(rows, id, tos)
             /\ CountUnread(db, to) = CountUnread(ReadView(DB, WriterTx), to) + 1

\* C30: once SendMessage has returned success on one handle, every query
\* started afterwards on any handle to the same file (GetMessage, GetInbox,
\* GetUnnotified, GetThread, CountUnread) reflects the message and all of its
\* recipient rows; and a GetInbox another handle starts then lists it
C30_VisibleAfterCommit ==
    [][\A p \in Procs :
        /\ (pc[p] = "commit" /\ pc'[p] = "idle") =>
              /\ result'[p] = Returned("SendMessage", NoError, 0)
              /\ VisibleAfter(call[p])
        /\ (pc[p] = "idle" /\ pc'[p] = "attach") =>
              \A q \in Procs \ {p} :
                 (result[q] = Returned("SendMessage", NoError, 0) /\ pc[q] = "idle") =>
                    IdOf[q] \in ListedIds(inbox'[p])
                       \/ ~HasRow(recipients, IdOf[q], call'[p].to_id, "unread")]_vars

\* p1's send to dev and qa has returned, and p2, on its own handle, got qa's
\* inbox afterwards with the message and both destinations
C30_Witness ==
    /\ result["p1"] = Returned("SendMessage", NoError, 0)
    /\ result["p2"] = Returned("GetInbox", NoError, 1)
    /\ Len(inbox["p2"]) = 1
    /\ inbox["p2"][1].id = "m1"
    /\ inbox["p2"][1].ToIDs = <<"dev", "qa">>

\* the rows of a table other than the row of the pair (mid, to)
OtherRows(rows, mid, to) == LET P(r) == ~IsPair(r, mid, to) IN Where(rows, P)

\* the step is the UPDATE of a MarkRead(mid, to) of connection p: run at once,
\* or after the wait for another connection's transaction
MarkReadRuns(p, mid, to) ==
    \/ MarkRead(p, mid, to) /\ result'[p].op = "MarkRead"
    \/ /\ ExecBlocked(p)
       /\ call[p].op = "MarkRead"
       /\ call[p].message_id = mid
       /\ call[p].to_id = to

\* C31: MarkRead calls made by several connections for distinct recipients of
\* one message are independent: in every interleaving each call that runs
\* returns no error and leaves its own row 'read', whatever the others did
\* before it, and changes no other recipient's row and no message; a call
\* fails only when a transaction of another connection held the write lock
\* for the whole busy wait
C31_IndependentMarkRead ==
    [][\A p \in Procs :
        /\ result'[p].op = "MarkRead" =>
              \A mid \in MsgIds, to \in Roles :
                 MarkReadRuns(p, mid, to) =>
                    /\ result'[p] = Returned("MarkRead", NoError, 0)
                    /\ \A r \in DOMAIN recipients' : IsPair(r, mid, to) => r.status = "read"
                    /\ RowsOfPair(recipients', mid, to) = RowsOfPair(recipients, mid, to)
                    /\ OtherRows(recipients', mid, to) = OtherRows(recipients, mid, to)
                    /\ messages' = messages
                    /\ \A q \in Procs \ {p} : result'[q] = result[q]
        /\ (pc[p] = "busy" /\ pc'[p] = "idle" /\ result'[p].err # NoError) =>
              /\ waited[p] >= BusyTimeout
              /\ lock \in Procs \ {p}
              /\ pc[lock] \in {"insert_rcpt", "commit", "rollback"}
              /\ DBAfter = DB]_vars

\* p1 and p2 each marked m1 read, one for dev and one for qa, and both rows
\* are 'read': nobody has an unread message
C31_Witness ==
    /\ result["p1"] = Returned("MarkRead", NoError, 0)
    /\ result["p2"] = Returned("MarkRead", NoError, 0)
    /\ HasRow(recipients, "m1", "dev", "read")
    /\ HasRow(recipients, "m1", "qa", "read")
    /\ CountUnread(DB, "dev") = 0
    /\ CountUnread(DB, "qa") = 0

\* C32: Init on a database that already has the schema, with any number of
\* message and recipient rows, returns no error and leaves every message row
\* and recipient row unchanged, also when it is called again and again
C32_InitIdempotent ==
    [][\A p \in SeqProcs :
        (calls' = calls + 1 /\ result'[p].op = "Init") =>
           /\ result'[p] = Returned("Init", NoError, 0)
           /\ DBAfter = DB
           /\ InitSchema(p)]_vars

\* Init has returned on a database with a message and its two recipient
\* rows, and they are there
C32_Witness ==
    /\ result["p1"].op = "Init"
    /\ calls = MaxCalls
    /\ BagCardinality(messages) = 1
    /\ BagCardinality(recipients) = 2

\* the row lists the thread command can show for argument arg on database
\* state db: those of GetThread for the thread of a message it resolved
ThreadShown(db, arg) ==
    UNION {GetThreadResults(db, ThreadRootID(t.msg)) :
              t \in {x \in ThreadTargets(db, arg) : x.err = NoError}}

\* the root of the thread stored message m belongs to
RootOf(m) == IF m.thread_id # NULL THEN m.thread_id ELSE m.id

\* C33: for every stored message M of a thread with root R (M = R or
\* M.thread_id = R.id) the thread command given M's id finds a message, and
\* shows what it shows for R's id, which is GetThread(R.id): the root and all
\* replies, oldest first; and a run of the command shows one of those lists
C33_ThreadFromAnyMember ==
    /\ [](\A m \in DOMAIN messages :
            /\ \A t \in ThreadTargets(DB, m.id) : t.err = NoError /\ t.msg.id = m.id
            /\ ThreadShown(DB, m.id) = GetThreadResults(DB, RootOf(m))
            /\ ThreadShown(DB, m.id) = ThreadShown(DB, RootOf(m))
            /\ \A rows \in ThreadShown(DB, m.id) :
                  {rows[i].id : i \in 1..Len(rows)}
                     = {x.id : x \in ThreadMembers(messages, RootOf(m))})
    /\ [][\A p \in SeqProcs :
            (calls' = calls + 1 /\ result'[p] = Returned("runThread", NoError, 0)) =>
               \A arg \in CliArgs :
                  runThread(p, arg) => inbox'[p] \in ThreadShown(DB, arg)]_vars

\* the thread command has shown a thread of a root and two replies, the
\* second a reply to the first reply
C33_Witness ==
    /\ result["p1"] = Returned("runThread", NoError, 0)
    /\ Len(inbox["p1"]) = 3
    /\ inbox["p1"][1].thread_id = NULL
    /\ \E i \in 2..3 : inbox["p1"][i].reply_to_id # inbox["p1"][1].id
    /\ \A i \in 2..3 : inbox["p1"][i].thread_id = inbox["p1"][1].id

\* the step stores the message of a reply composed in the TUI: the compose
\* view was opened with key r or R on a message and the send succeeded
TuiReplySent ==
    /\ pc[TuiProc] = "ViewCompose"
    /\ call[TuiProc].key \in {"r", "R"}
    /\ calls' = calls + 1
    /\ result'[TuiProc] = Returned("sendMessage", NoError, 0)
    /\ result'["p1"] = result["p1"]

\* the messages the step stored
StoredBy == {m \in DOMAIN messages' : m \notin DOMAIN messages}

\* C34: the message stored when the user replies (key r) or replies to all
\* (key R) to a message O in the TUI and sends it has reply_to_id = O.id and
\* thread_id = O.thread_id if present, otherwise O.id, so that GetThread of
\* O's thread root lists it
C34_TuiReplyLinkage ==
    [][TuiReplySent =>
          LET o == call[TuiProc].currentMessage IN
             \A m \in StoredBy :
                /\ m.reply_to_id = o.id
                /\ m.thread_id = ThreadRootID(o)
                /\ \A rows \in GetThreadResults(DBAfter, ThreadRootID(o)) :
                      \E i \in 1..Len(rows) : rows[i].id = m.id]_vars

\* a reply written in the TUI to message m1 is stored, without reply_to_id and
\* without thread_id
C34_Witness ==
    /\ result[TuiProc] = Returned("sendMessage", NoError, 0)
    /\ call[TuiProc].key = "r"
    /\ call[TuiProc].currentMessage.id = "m1"
    /\ \E m \in DOMAIN messages :
          /\ m.id = "m2"
          /\ m.from_id = call[TuiProc].identity
          /\ m.reply_to_id = NULL
          /\ m.thread_id = NULL
    /\ \A rows \in GetThreadResults(DB, "m1") : \A i \in 1..Len(rows) : rows[i].id # "m2"

\* C35: a recipient row is created 'unread', and once its status is 'read' or
\* 'archived' no call (MarkRead, MarkAllRead, Archive, MarkNotified,
\* SendMessage, or any other) sets it back to 'unread'; so CountUnread(toID)
\* rises only by a successful SendMessage that lists toID
C35_NeverBackToUnread ==
    [][\A p \in SeqProcs :
        /\ \A r \in DOMAIN recipients :
              r.status \in {"read", "archived"} =>
                 ~HasRow(recipients', r.message_id, r.to_id, "unread")
        /\ \A r \in DOMAIN recipients' :
              RowsOfPair(recipients, r.message_id, r.to_id) = 0 =>
                 /\ r.status = "unread"
                 /\ result'[p] = Returned("SendMessage", NoError, 0)
        /\ \A to \in Roles :
              CountUnread(DBAfter, to) > CountUnread(DB, to) =>
                 /\ calls' = calls + 1
                 /\ result'[p] = Returned("SendMessage", NoError, 0)
                 /\ CountUnread(DBAfter, to) = CountUnread(DB, to) + 1
                 /\ \E r \in DOMAIN recipients' :
                       /\ r.to_id = to
                       /\ RowsOfPair(recipients, r.message_id, to) = 0]_vars

\* after a send and two more calls, the last a MarkRead at time 1, the only
\* recipient row is 'read' and nobody has an unread message
C35_Witness ==
    /\ result["p1"] = Returned("MarkRead", NoError, 0)
    /\ calls = MaxCalls
    /\ \E r \in DOMAIN recipients : r.status = "read" /\ r.read_at = 1
    /\ \A r \in DOMAIN recipients : r.status # "unread"
    /\ BagCardinality(recipients) = 1

\* the step is the return of connection q's GetInbox, after its second query
GetInboxReturns(q) == pc[q] = "attach" /\ pc'[q] = "idle"

\* C36 as stated: in every result of GetInbox(toID, .), also when another
\* connection commits a Delete or a SendMessage between the two queries, each
\* returned row's ToIDs contains toID and is the recipient set of the message
\* in one database state
C36_ToIDsContainToID ==
    [][\A q \in Procs :
        GetInboxReturns(q) =>
           \A i \in 1..Len(inbox'[q]) :
              /\ \E k \in 1..Len(inbox'[q][i].ToIDs) : inbox'[q][i].ToIDs[k] = call[q].to_id
              /\ inbox'[q][i].ToIDs = MessageRecipients(ReadView(DB, WriterTx), inbox'[q][i].id)]_vars

\* C36: the rows of a result of GetInbox(toID, .) are those of its first
\* query, and the ToIDs of all of them are the recipient sets of their
\* messages in one database state, the committed one at the second query; a
\* row's ToIDs contains toID unless toID's recipient row of that message was
\* deleted after the first query, and a message committed after the first
\* query is not in the result
C36_ToIDsOfSecondQuery ==
    [][\A q \in Procs :
        GetInboxReturns(q) =>
           /\ Len(inbox'[q]) = Len(inbox[q])
           /\ result'[q] = Returned("GetInbox", NoError, Len(inbox[q]))
           /\ \A i \in 1..Len(inbox'[q]) :
                 /\ inbox'[q][i].id = inbox[q][i].id
                 /\ inbox'[q][i].status = inbox[q][i].status
                 /\ HasMessage(ReadView(DB, WriterTx).messages, inbox'[q][i].id)
                 /\ inbox'[q][i].ToIDs
                       = MessageRecipients(ReadView(DB, WriterTx), inbox'[q][i].id)
                 /\ \/ \E k \in 1..Len(inbox'[q][i].ToIDs) :
                          inbox'[q][i].ToIDs[k] = call[q].to_id
                    \/ RowsOfPair(ReadView(DB, WriterTx).recipients,
                                  inbox'[q][i].id, call[q].to_id) = 0]_vars

\* p2's GetInbox returned m1 with no destination at all: the row it was
\* listed for was deleted between the two queries
C36_Witness ==
    /\ result["p2"] = Returned("GetInbox", NoError, 1)
    /\ pc["p2"] = "idle"
    /\ inbox["p2"][1].id = "m1"
    /\ inbox["p2"][1].ToIDs = <<>>
    /\ result["p1"] = Returned("Delete", NoError, 0)


\* the rows the poll query of watcher w has just returned
PollReturns(w) == {inbox'[w][i].id : i \in 1..Len(inbox'[w])}

InPoll(id) ==
    /\ pc[Watcher] \in {"dispatch", "mark"}
    /\ \E i \in idx[Watcher]..Len(inbox[Watcher]) : inbox[Watcher][i].id = id

\* message id was sent: its message row is committed
WasSent(id) == \E m \in DOMAIN messages : m.id = id

\* message id was sent to the watched role and its row is not unread (read,
\* archived or gone), its notified_at is not set, and no poll query made
\* while it was unread still holds it
SettledUnnotified(id) ==
    WasSent(id) /\ ~Unread(id) /\ ~Notified(id) /\ ~InPoll(id)

\* C38: only unread rows are notified: a (message, role) pair whose recipient
\* row was marked read, archived or deleted before the watcher's poll query
\* runs is not returned by GetUnnotified, is not dispatched by that or any
\* later poll, and its notified_at stays unset
C38_OnlyUnreadNotified ==
    /\ [][WatchGetUnnotified(Watcher) =>
            \A id \in PollReturns(Watcher) : Unread(id)]_vars
    /\ [][\A id \in MsgIds :
            SettledUnnotified(id) =>
                /\ SettledUnnotified(id)'
                /\ dispatched'[Watcher][id] = dispatched[Watcher][id]]_vars

\* a poll query ran on a database in which a message was sent to the watched
\* role and its row then marked read or archived: it returned nothing, the
\* message was never dispatched and its notified_at is unset
C38_Witness ==
    /\ pc[Watcher] = "select" /\ idx[Watcher] = 1 /\ inbox[Watcher] = <<>>
    /\ \E r \in DOMAIN recipients :
          /\ r.to_id = WatchRole
          /\ r.status \in {"read", "archived"}
          /\ r.notified_at = NoTime
          /\ dispatched[Watcher][r.message_id] = 0


\* the recipients table has no row for the pair (mid, to)
NoRowFor(mid, to) == \A r \in DOMAIN recipients : ~IsPair(r, mid, to)

\* connection p makes the call op on the pair (mid, to)
PairCall(p, op, mid, to) ==
    CASE op = "MarkRead" -> MarkRead(p, mid, to)
      [] op = "MarkNotified" -> MarkNotified(p, mid, to)
      [] op = "Archive" -> Archive(p, mid, to)
      [] op = "Delete" -> Delete(p, mid, to)

\* C39: mutations on a missing pair are silent no-ops: MarkRead, Archive,
\* Delete and MarkNotified called with a (messageID, toID) pair that has no
\* recipient row (unknown message, role that is not a recipient, row already
\* deleted) return no error, create no row and leave every message row and
\* every recipient row unchanged
C39_MissingPairNoOp ==
    [][\A p \in SeqProcs, mid \in MsgIds, to \in Roles,
          op \in {"MarkRead", "MarkNotified", "Archive", "Delete"} :
            (NoRowFor(mid, to) /\ PairCall(p, op, mid, to)) =>
                /\ result'[p] = Returned(op, NoError, 0)
                /\ recipients' = recipients
                /\ messages' = messages]_vars

\* Archive has just returned nil on a database that holds a message whose
\* every recipient row is still unread: the pair it named has no row
C39_Witness ==
    /\ result["p1"] = Returned("Archive", NoError, 0)
    /\ messages # NoRows
    /\ recipients # NoRows
    /\ \A r \in DOMAIN recipients : r.status = "unread"


\* this step is a run of read by toID, by id prefix or with --latest
ReadRuns(p, toID) ==
    \/ \E arg \in CliArgs : runRead(p, toID, arg)
    \/ runReadLatest(p, toID)

\* the recipient row r is in the table afterwards as it is before
RowKept(r) == r \in DOMAIN recipients' /\ recipients'[r] = recipients[r]

\* C40: the CLI read command changes recipient state only for unread rows:
\* run by id prefix on the one message of the caller's inbox that matches, or
\* with --latest, it sets the caller's row from 'unread' to 'read'; run on a
\* row that is 'read' or 'archived' it performs no MarkRead, the row keeps its
\* status and read_at, an archived message stays archived
C40_ReadMarksUnreadOnly ==
    [][\A p \in SeqProcs :
        Returns(p, "runRead") =>
          \A toID \in Roles :
            /\ ReadRuns(p, toID) =>
                  \A r \in DOMAIN recipients : r.status # "unread" => RowKept(r)
            /\ \A arg \in CliArgs :
                  (Cardinality(InScope(arg, toID)) = 1 /\ runRead(p, toID, arg)) =>
                      LET m == CHOOSE m \in InScope(arg, toID) : TRUE IN
                      IF HasRow(recipients, m.id, toID, "unread")
                      THEN HasRow(recipients', m.id, toID, "read")
                      ELSE recipients' = recipients
            /\ (recipients' # recipients /\ runReadLatest(p, toID)) =>
                  \E m \in DOMAIN messages :
                      /\ HasRow(recipients, m.id, toID, "unread")
                      /\ HasRow(recipients', m.id, toID, "read")]_vars

\* read has just returned nil on a database whose only message is archived
\* for its only recipient, with read_at unset
C40_Witness ==
    /\ result["p1"] = Returned("runRead", NoError, 0)
    /\ BagCardinality(messages) = 1
    /\ BagCardinality(recipients) = 1
    /\ \E r \in DOMAIN recipients : r.status = "archived" /\ r.read_at = NoTime

====
